---- MODULE Spec2Model ----
(***************************************************************************)
(* Dormant-token spike detector: the snapshot store (TokenStateManager),   *)
(* the tiered spike detector with per-tier cooldown (SpikeDetector) and     *)
(* the monitor cycle that drives them (SpikeDetectionService).              *)
(*                                                                          *)
(* Time is Date.now() in milliseconds.  Prices are in cents and percent     *)
(* comparisons are done exactly: a / b * 100 >= c is written                *)
(* a * 100 >= c * b for b > 0 (floating point rounding is not modelled).    *)
(* The several Date.now() reads of one synchronous checkForSpike call are   *)
(* taken at the same millisecond.                                           *)
(***************************************************************************)
EXTENDS Integers, Sequences, FiniteSets, TLC

VARIABLES
    now,               \* Date.now()
    tokens,            \* TokenStateManager.tokens : address -> TokenState
    alertThreshold25,  \* Config.alertThreshold25
    alertThreshold50,  \* Config.alertThreshold50
    alertLog,          \* every SpikeAlert returned by checkForSpike, in order
    lastCall,          \* observation of the latest checkForSpike call
    evals,             \* number of checkForSpike calls so far
    ticks,             \* number of clock advances so far
    phase,             \* start(): "constructed", "starting", "running"
    isRunning,         \* SpikeDetectionService.isRunning
    trackedTokens,     \* TokenUniverseManager.trackedTokens, insertion order
    isPaused,          \* Config.isPaused
    timers,            \* due time of each setInterval timer, 0: not set
    runs,              \* monitor runs in start order, each at its await
    discoveries,       \* discovery runs in start order, each at its await
    delivered,         \* alerts sendAlert handed to the bot, in order
    requests,          \* RateLimiter.requests
    calls,             \* time of every getMultipleTokenPairs call made
    retry,             \* one ErrorHandler.retry call, at its await
    minTokenAgeHours,  \* Config.minTokenAgeHours
    lastFetch          \* the latest answer of the provider to the Universe

detectorVars == <<now, tokens, alertThreshold25, alertThreshold50, alertLog,
                  lastCall, evals, ticks>>

engineVars == <<now, tokens, alertThreshold25, alertThreshold50, alertLog,
                lastCall, evals, ticks, minTokenAgeHours, lastFetch>>

schedVars == <<phase, isRunning, trackedTokens, isPaused, timers, runs,
               discoveries, delivered, requests, calls, retry>>

vars == <<now, tokens, alertThreshold25, alertThreshold50, alertLog, lastCall,
          evals, ticks, phase, isRunning, trackedTokens, isPaused, timers,
          runs, discoveries, delivered, requests, calls, retry,
          minTokenAgeHours, lastFetch>>

----------------------------------------------------------------------------
(* Bounds of the model *)

MaxEvals == 4
MaxTicks == 2
MaxTierEvals == 4
MaxCoolEvals == 5
MaxCoolTicks == 3
MaxCapCalls == 146
MaxCleanEvals == 3
MaxCleanTicks == 2
MaxRuns == 3
MaxSchedTicks == 1
MaxResponse == 3
MaxOrderRuns == 3
MaxOrderTicks == 2
MaxConfigRuns == 2
MaxConfigTicks == 1
MaxLimiterRequests == 252
MaxLimiterTicks == 2
MaxLimiterCallers == 1
MaxRetryAttempts == 3
MaxRetryTicks == 3
MaxUniverseTicks == 1
MaxRateRuns == 7
MaxRateTicks == 70
MaxActiveEvals == 3
MaxActiveTicks == 2
MaxMultiCalls == 3
MaxSnapRuns == 4
MaxSourceEvals == 3
MaxSourceTicks == 1
MaxFrameEvals == 5
MaxFrameTicks == 1
MaxForeignRuns == 3

MaxForeignTicks == 3

MaxRateBatches == 23

----------------------------------------------------------------------------
(* Program constants *)

MinuteMs == 60 * 1000
HourMs == 60 * 60 * 1000

maxSnapshotsPerToken == 144
dormantVolatilityThreshold == 5
dormantVolumeThreshold == 1000
baselinePeriodMinutes == 60
alertCooldownMs == 30 * 60 * 1000
maxMarketCap == 100000000
minLiquidityUsd == 2000
cleanupMaxAgeHours == 24
pollingIntervalMs == 10000
discoveryIntervalMs == 60 * 60 * 1000
cleanupIntervalMs == 6 * 60 * 60 * 1000
MIN_TOKEN_AGE_HOURS == 1
batchSize == 30
batchDelayMs == 200
alertDelayMs == 500
searchDelayMs == 500
rateLimitMaxRequests == 250
rateLimitWindowMs == 60 * 1000
rateLimitBufferMs == 100
monitorMaxRetries == 3
monitorRetryDelayMs == 1000
discoverRetryDelayMs == 2000
StartTime == 1000000

Tiers == {"tier25", "tier50"}

----------------------------------------------------------------------------
(* Provider records (TokenPair).  priceUsd is text; the other numeric       *)
(* fields are numbers, 0 standing for a missing field (x || 0).             *)

PriceTexts == {"1.00", "1.02", "1.30", "0", ""}

\* parseFloat(text) is NaN for a text that does not start with a number
IsNaNText(text) == text \notin {"1.00", "1.02", "1.30", "0"}

\* parseFloat(text) of a numeric text, in cents
parseFloat(text) ==
    CASE text = "1.00" -> 100
      [] text = "1.02" -> 102
      [] text = "1.30" -> 130
      [] text = "0" -> 0

\* parseFloat(text) || 0
parseFloatOr0(text) == IF IsNaNText(text) THEN 0 ELSE parseFloat(text)

Pair(addr, dex, priceText, fdv, volM5, liq, pcM5) ==
    [address |-> addr, dexId |-> dex, priceUsd |-> priceText, fdv |-> fdv,
     volumeM5 |-> volM5, liquidityUsd |-> liq, priceChangeM5 |-> pcM5,
     pairCreatedAt |-> 0]

Quiet(a)      == Pair(a, "pumpswap", "1.00", 40000, 100, 5000, 0)
Drift(a)      == Pair(a, "pumpswap", "1.02", 40000, 0, 5000, 2)
Spike24(a)    == Pair(a, "pumpswap", "1.00", 40000, 0, 5000, 24)
Spike25(a)    == Pair(a, "pumpswap", "1.00", 40000, 0, 5000, 25)
Spike30(a)    == Pair(a, "pumpswap", "1.02", 40000, 0, 5000, 30)
Spike49(a)    == Pair(a, "pumpswap", "1.00", 40000, 0, 5000, 49)
Spike50(a)    == Pair(a, "pumpswap", "1.00", 40000, 0, 5000, 50)
Spike62(a)    == Pair(a, "launchlab-bonk", "1.00", 40000, 0, 5000, 62)
Jump30(a)     == Pair(a, "pumpswap", "1.30", 40000, 100, 5000, 30)
Loud30(a)     == Pair(a, "pumpswap", "1.00", 40000, 900, 5000, 30)
LowLiq30(a)   == Pair(a, "pumpswap", "1.00", 40000, 0, 1500, 30)
NoSource30(a) == Pair(a, "raydium", "1.00", 40000, 0, 5000, 30)
NoCap30(a)    == Pair(a, "pumpswap", "1.00", 0, 0, 5000, 30)
BigCap30(a)   == Pair(a, "pumpswap", "1.00", maxMarketCap, 0, 5000, 30)
NoPrice30(a)  == Pair(a, "pumpswap", "", 40000, 0, 5000, 30)

NoPair == Pair("", "", "", 0, 0, 0, 0)

----------------------------------------------------------------------------
(* DexScreenerService *)

\* dexId.toLowerCase().includes('pump') / includes('bonk')
IncludesPump(dex) == dex \in {"pumpfun", "pumpswap"}
IncludesBonk(dex) == dex \in {"bonk", "launchlab-bonk"}

getTokenSource(pair) ==
    IF IncludesPump(pair.dexId) THEN "pumpfun"
    ELSE IF IncludesBonk(pair.dexId) THEN "bonk"
    ELSE "null"

----------------------------------------------------------------------------
(* TokenStateManager *)

NoAlerts == [tier25 |-> 0, tier50 |-> 0]

Abs(x) == IF x < 0 THEN -x ELSE x

TrimSnapshots_DropNewest(pushed) ==
    IF Len(pushed) > maxSnapshotsPerToken
    THEN SubSeq(pushed, 1, Len(pushed) - 1)
    ELSE pushed

\* if (snapshots.length > maxSnapshotsPerToken) snapshots.shift()
TrimSnapshots(pushed) ==
    IF Len(pushed) > maxSnapshotsPerToken THEN Tail(pushed) ELSE pushed

updateTokenState_Overwrites(T, tokenAddress, pair, snapshot, source, t) ==
    LET old == IF tokenAddress \in DOMAIN T
               THEN [T[tokenAddress] EXCEPT
                       !.source = IF source # "null" THEN source ELSE @]
               ELSE [source |-> source,
                     createdAt |-> pair.pairCreatedAt,
                     firstSeen |-> t,
                     snapshots |-> <<>>,
                     lastAlertTimestamp |-> NoAlerts,
                     lastSeenActive |-> t]
        kept == TrimSnapshots(Append(old.snapshots, snapshot))
        active == snapshot.volume5m > 0 \/ Abs(snapshot.priceChange5m) > 1
        new == [old EXCEPT !.snapshots = kept,
                           !.lastSeenActive =
                               IF active THEN snapshot.timestamp ELSE @]
    IN [a \in DOMAIN T \cup {tokenAddress} |->
          IF a = tokenAddress THEN new ELSE T[a]]

updateTokenState_AlwaysActive(T, tokenAddress, pair, snapshot, source, t) ==
    LET old == IF tokenAddress \in DOMAIN T
               THEN [T[tokenAddress] EXCEPT
                       !.source = IF @ = "null" /\ source # "null"
                                  THEN source ELSE @]
               ELSE [source |-> source,
                     createdAt |-> pair.pairCreatedAt,
                     firstSeen |-> t,
                     snapshots |-> <<>>,
                     lastAlertTimestamp |-> NoAlerts,
                     lastSeenActive |-> t]
        kept == TrimSnapshots(Append(old.snapshots, snapshot))
        new == [old EXCEPT !.snapshots = kept,
                           !.lastSeenActive = snapshot.timestamp]
    IN [a \in DOMAIN T \cup {tokenAddress} |->
          IF a = tokenAddress THEN new ELSE T[a]]

updateTokenState_Prepends(T, tokenAddress, pair, snapshot, source, t) ==
    LET old == IF tokenAddress \in DOMAIN T
               THEN [T[tokenAddress] EXCEPT
                       !.source = IF @ = "null" /\ source # "null"
                                  THEN source ELSE @]
               ELSE [source |-> source,
                     createdAt |-> pair.pairCreatedAt,
                     firstSeen |-> t,
                     snapshots |-> <<>>,
                     lastAlertTimestamp |-> NoAlerts,
                     lastSeenActive |-> t]
        kept == TrimSnapshots(<<snapshot>> \o old.snapshots)
        active == snapshot.volume5m > 0 \/ Abs(snapshot.priceChange5m) > 1
        new == [old EXCEPT !.snapshots = kept,
                           !.lastSeenActive =
                               IF active THEN snapshot.timestamp ELSE @]
    IN [a \in DOMAIN T \cup {tokenAddress} |->
          IF a = tokenAddress THEN new ELSE T[a]]

updateTokenState(T, tokenAddress, pair, snapshot, source, t) ==
    LET old == IF tokenAddress \in DOMAIN T
               THEN [T[tokenAddress] EXCEPT
                       !.source = IF @ = "null" /\ source # "null"
                                  THEN source ELSE @]
               ELSE [source |-> source,
                     createdAt |-> pair.pairCreatedAt,
                     firstSeen |-> t,
                     snapshots |-> <<>>,
                     lastAlertTimestamp |-> NoAlerts,
                     lastSeenActive |-> t]
        kept == TrimSnapshots(Append(old.snapshots, snapshot))
        active == snapshot.volume5m > 0 \/ Abs(snapshot.priceChange5m) > 1
        new == [old EXCEPT !.snapshots = kept,
                           !.lastSeenActive =
                               IF active THEN snapshot.timestamp ELSE @]
    IN [a \in DOMAIN T \cup {tokenAddress} |->
          IF a = tokenAddress THEN new ELSE T[a]]

getSnapshotsInWindow_Strict(T, tokenAddress, windowMinutes, t) ==
    IF tokenAddress \notin DOMAIN T THEN <<>>
    ELSE LET cutoffTime == t - windowMinutes * 60 * 1000
             InWindow(s) == s.timestamp > cutoffTime
         IN SelectSeq(T[tokenAddress].snapshots, InWindow)

getSnapshotsInWindow(T, tokenAddress, windowMinutes, t) ==
    IF tokenAddress \notin DOMAIN T THEN <<>>
    ELSE LET cutoffTime == t - windowMinutes * 60 * 1000
             InWindow(s) == s.timestamp >= cutoffTime
         IN SelectSeq(T[tokenAddress].snapshots, InWindow)

\* snapshots.reduce((sum, s) => sum + s.volume5m, 0); the sum is exact, so
\* it is taken by halves to keep the evaluation shallow
RECURSIVE SumVolumeRange(_, _, _)
SumVolumeRange(snaps, lo, hi) ==
    IF lo > hi THEN 0
    ELSE IF lo = hi THEN snaps[lo].volume5m
    ELSE LET mid == (lo + hi) \div 2
         IN SumVolumeRange(snaps, lo, mid) + SumVolumeRange(snaps, mid + 1, hi)

SumVolume(snaps) == SumVolumeRange(snaps, 1, Len(snaps))

\* the classifier of isDormant, on the window it is given
DormantWindow(snapshots, volatilityThreshold, volumeThreshold) ==
    IF Len(snapshots) < 3 THEN FALSE
    ELSE IF SumVolume(snapshots) >= volumeThreshold THEN FALSE
    ELSE LET firstPrice == snapshots[1].price
             lastPrice == snapshots[Len(snapshots)].price
         IN IF firstPrice > 0 /\
               Abs(lastPrice - firstPrice) * 100
                   >= volatilityThreshold * firstPrice
            THEN FALSE
            ELSE \A i \in 2..Len(snapshots) :
                    LET prevPrice == snapshots[i - 1].price
                        currPrice == snapshots[i].price
                    IN ~(prevPrice > 0 /\
                         (currPrice - prevPrice) * 100 > 10 * prevPrice)

isDormant_WholeHistory(T, tokenAddress, volatilityThreshold, volumeThreshold, baselineMinutes, t) ==
    DormantWindow(IF tokenAddress \in DOMAIN T THEN T[tokenAddress].snapshots
                  ELSE <<>>,
                  volatilityThreshold, volumeThreshold)

isDormant(T, tokenAddress, volatilityThreshold, volumeThreshold, baselineMinutes, t) ==
    DormantWindow(getSnapshotsInWindow(T, tokenAddress, baselineMinutes, t),
                  volatilityThreshold, volumeThreshold)

recordAlert_BothTiers(T, tokenAddress, tier, t) ==
    IF tokenAddress \in DOMAIN T
    THEN [T EXCEPT ![tokenAddress].lastAlertTimestamp =
                       [tier25 |-> t, tier50 |-> t]]
    ELSE T

recordAlert_OtherTier(T, tokenAddress, tier, t) ==
    IF tokenAddress \in DOMAIN T
    THEN [T EXCEPT ![tokenAddress].lastAlertTimestamp[
                       IF tier = "tier25" THEN "tier50" ELSE "tier25"] = t]
    ELSE T

recordAlert(T, tokenAddress, tier, t) ==
    IF tokenAddress \in DOMAIN T
    THEN [T EXCEPT ![tokenAddress].lastAlertTimestamp[tier] = t]
    ELSE T

isInCooldown_NoExpiry(T, tokenAddress, tier, cooldownMs, t) ==
    ~(tokenAddress \notin DOMAIN T
      \/ T[tokenAddress].lastAlertTimestamp[tier] = 0)

\* a stamp of 0 stands for "never alerted" (!state.lastAlertTimestamp[tier])
isInCooldown(T, tokenAddress, tier, cooldownMs, t) ==
    IF tokenAddress \notin DOMAIN T
       \/ T[tokenAddress].lastAlertTimestamp[tier] = 0
    THEN FALSE
    ELSE t - T[tokenAddress].lastAlertTimestamp[tier] < cooldownMs

cleanupOldTokens_ByFirstSeen(T, maxAgeHours, t) ==
    LET cutoffTime == t - maxAgeHours * 60 * 60 * 1000
        tokensToRemove == {a \in DOMAIN T : T[a].firstSeen < cutoffTime}
    IN [a \in DOMAIN T \ tokensToRemove |-> T[a]]

cleanupOldTokens_Inclusive(T, maxAgeHours, t) ==
    LET cutoffTime == t - maxAgeHours * 60 * 60 * 1000
        tokensToRemove == {a \in DOMAIN T : T[a].lastSeenActive <= cutoffTime}
    IN [a \in DOMAIN T \ tokensToRemove |-> T[a]]

cleanupOldTokens(T, maxAgeHours, t) ==
    LET cutoffTime == t - maxAgeHours * 60 * 60 * 1000
        tokensToRemove == {a \in DOMAIN T : T[a].lastSeenActive < cutoffTime}
    IN [a \in DOMAIN T \ tokensToRemove |-> T[a]]

----------------------------------------------------------------------------
(* SpikeDetector *)

meetsBasicCriteria_NoLiquidity(pair) ==
    LET marketCap == pair.fdv
        priceText == IF pair.priceUsd = "" THEN "0" ELSE pair.priceUsd
    IN /\ ~(marketCap >= maxMarketCap \/ marketCap = 0)
       /\ ~(~IsNaNText(priceText) /\ parseFloat(priceText) <= 0)

meetsBasicCriteria(pair) ==
    LET marketCap == pair.fdv
        priceText == IF pair.priceUsd = "" THEN "0" ELSE pair.priceUsd
        liquidity == pair.liquidityUsd
    IN /\ ~(marketCap >= maxMarketCap \/ marketCap = 0)
       /\ ~(~IsNaNText(priceText) /\ parseFloat(priceText) <= 0)
       /\ ~(liquidity < minLiquidityUsd)

MakeSnapshot(pair, t) ==
    [timestamp |-> t,
     price |-> parseFloatOr0(pair.priceUsd),
     marketCap |-> pair.fdv,
     volume5m |-> pair.volumeM5,
     liquidity |-> pair.liquidityUsd,
     priceChange5m |-> pair.priceChangeM5]

SelectTier_Downgrades(T, tokenAddress, priceChange5m, t25, t50, t) ==
    IF t50 /\ priceChange5m >= 50
       /\ ~isInCooldown(T, tokenAddress, "tier50", alertCooldownMs, t)
    THEN "tier50"
    ELSE IF t25 /\ priceChange5m >= 25
            /\ ~isInCooldown(T, tokenAddress, "tier25", alertCooldownMs, t)
    THEN "tier25"
    ELSE "none"

SelectTier_Tier25First(T, tokenAddress, priceChange5m, t25, t50, t) ==
    IF t25 /\ priceChange5m >= 25
       /\ ~isInCooldown(T, tokenAddress, "tier25", alertCooldownMs, t)
    THEN "tier25"
    ELSE IF t50 /\ priceChange5m >= 50
            /\ ~isInCooldown(T, tokenAddress, "tier50", alertCooldownMs, t)
    THEN "tier50"
    ELSE "none"

\* the if / else-if chain of checkForSpike that picks the tier
SelectTier(T, tokenAddress, priceChange5m, t25, t50, t) ==
    IF t50 /\ priceChange5m >= 50
       /\ ~isInCooldown(T, tokenAddress, "tier50", alertCooldownMs, t)
    THEN "tier50"
    ELSE IF t25 /\ priceChange5m >= 25 /\ priceChange5m < 50
            /\ ~isInCooldown(T, tokenAddress, "tier25", alertCooldownMs, t)
    THEN "tier25"
    ELSE "none"

\* a record without baseToken: pair.baseToken.address raises a TypeError in
\* the first statement of checkForSpike
NoBaseToken == "undefined"

Throws(pair) == pair.address = NoBaseToken

SourceRejected_Never(source) == FALSE

\* if (!source) return null
SourceRejected(source) == source = "null"

checkForSpike_NoRecord(T, pair, t25, t50, t) ==
    LET tokenAddress == pair.address
        source == getTokenSource(pair)
        snapshot == MakeSnapshot(pair, t)
    IN IF Throws(pair)
       THEN [tokens |-> T, tier |-> "none", exit |-> "error"]
       ELSE IF SourceRejected(source)
       THEN [tokens |-> T, tier |-> "none", exit |-> "source"]
       ELSE LET T1 == updateTokenState(T, tokenAddress, pair, snapshot,
                                       source, t)
            IN IF ~meetsBasicCriteria(pair)
               THEN [tokens |-> T1, tier |-> "none", exit |-> "criteria"]
               ELSE LET wasDormant ==
                            isDormant(T1, tokenAddress,
                                      dormantVolatilityThreshold,
                                      dormantVolumeThreshold,
                                      baselinePeriodMinutes, t)
                        tier == SelectTier(T1, tokenAddress,
                                           snapshot.priceChange5m,
                                           t25, t50, t)
                    IN IF ~wasDormant
                       THEN [tokens |-> T1, tier |-> "none",
                             exit |-> "dormant"]
                       ELSE IF tier = "none"
                       THEN [tokens |-> T1, tier |-> "none", exit |-> "tier"]
                       ELSE [tokens |-> T1,
                             tier |-> tier, exit |-> "alert"]

\* checkForSpike(pair) at time t on store T with the tier flags t25, t50:
\* the store it leaves, the tier of the alert it returns ("none": null) and
\* the return statement it leaves by
checkForSpike(T, pair, t25, t50, t) ==
    LET tokenAddress == pair.address
        source == getTokenSource(pair)
        snapshot == MakeSnapshot(pair, t)
    IN IF Throws(pair)
       THEN [tokens |-> T, tier |-> "none", exit |-> "error"]
       ELSE IF SourceRejected(source)
       THEN [tokens |-> T, tier |-> "none", exit |-> "source"]
       ELSE LET T1 == updateTokenState(T, tokenAddress, pair, snapshot,
                                       source, t)
            IN IF ~meetsBasicCriteria(pair)
               THEN [tokens |-> T1, tier |-> "none", exit |-> "criteria"]
               ELSE LET wasDormant ==
                            isDormant(T1, tokenAddress,
                                      dormantVolatilityThreshold,
                                      dormantVolumeThreshold,
                                      baselinePeriodMinutes, t)
                        tier == SelectTier(T1, tokenAddress,
                                           snapshot.priceChange5m,
                                           t25, t50, t)
                    IN IF ~wasDormant
                       THEN [tokens |-> T1, tier |-> "none",
                             exit |-> "dormant"]
                       ELSE IF tier = "none"
                       THEN [tokens |-> T1, tier |-> "none", exit |-> "tier"]
                       ELSE [tokens |-> recordAlert(T1, tokenAddress, tier, t),
                             tier |-> tier, exit |-> "alert"]

MakeAlert(pair, tier, t) ==
    [tokenAddress |-> pair.address, source |-> getTokenSource(pair),
     priceChange5m |-> pair.priceChangeM5, tier |-> tier,
     currentPrice |-> parseFloatOr0(pair.priceUsd),
     marketCap |-> pair.fdv, volume5m |-> pair.volumeM5,
     liquidity |-> pair.liquidityUsd, timestamp |-> t]

----------------------------------------------------------------------------
(* RateLimiter *)

\* the filter of canMakeRequest and getRemainingRequests
PruneRequests(reqs, windowMs, t) ==
    LET InWindow(timestamp) == t - timestamp < windowMs
    IN SelectSeq(reqs, InWindow)

\* canMakeRequest on the filtered requests
canMakeRequest(pruned, maxRequests) == Len(pruned) < maxRequests

\* Math.min(...this.requests)
OldestRequest(reqs) ==
    CHOOSE x \in {reqs[i] : i \in 1..Len(reqs)} :
        \A i \in 1..Len(reqs) : x <= reqs[i]

\* waitTime of waitForAvailability
WaitTime(pruned, windowMs, t) ==
    windowMs - (t - OldestRequest(pruned)) + rateLimitBufferMs

recordRequest(reqs, t) == Append(reqs, t)

----------------------------------------------------------------------------
(* ErrorHandler.retry.  The record holds the arguments, the loop variable  *)
(* attempt, the await the call is suspended at, and what it has done so    *)
(* far: the number of invocations of fn, the calls of onError and the      *)
(* arguments of delay.                                                      *)

ErrorKinds == {"rateLimit", "network", "other"}

NoRetry ==
    [pc |-> "idle", maxRetries |-> 0, initialDelayMs |-> 0, attempt |-> 0,
     wakeAt |-> 0, invocations |-> 0, onError |-> <<>>, delays |-> <<>>,
     result |-> "none"]

RECURSIVE Pow2(_)
\* Math.pow(2, n)
Pow2(n) == IF n = 0 THEN 1 ELSE 2 * Pow2(n - 1)

\* initialDelayMs * Math.pow(2, attempt - 1)
BackoffDelay_Doubled(initialDelayMs, attempt) == initialDelayMs * Pow2(attempt)

BackoffDelay(initialDelayMs, attempt) == initialDelayMs * Pow2(attempt - 1)

\* retry(fn, maxRetries, initialDelayMs, onError) up to its first await:
\* the first call of fn, or the throw when the loop body never runs
retryStart(maxRetries, initialDelayMs) ==
    IF 1 <= maxRetries
    THEN [NoRetry EXCEPT !.pc = "call", !.maxRetries = maxRetries,
                         !.initialDelayMs = initialDelayMs,
                         !.attempt = 1, !.invocations = 1]
    ELSE [NoRetry EXCEPT !.pc = "thrown", !.maxRetries = maxRetries,
                         !.initialDelayMs = initialDelayMs,
                         !.result = "unknown error"]

\* fn() resolves with value
retryResolved(rt, value) == [rt EXCEPT !.pc = "returned", !.result = value]

\* fn() rejects with error: onError, then the backoff delay or the throw
retryRejected_DelayAfterLast(rt, error, t) ==
    LET hooked == [rt EXCEPT !.onError =
                       Append(@, [error |-> error, attempt |-> rt.attempt])]
        delay == BackoffDelay(rt.initialDelayMs, rt.attempt)
    IN [hooked EXCEPT !.pc = "backoff", !.wakeAt = t + delay,
                      !.delays = Append(@, delay)]

retryRejected(rt, error, t) ==
    LET hooked == [rt EXCEPT !.onError =
                       Append(@, [error |-> error, attempt |-> rt.attempt])]
    IN IF rt.attempt < rt.maxRetries
       THEN LET delay == BackoffDelay(rt.initialDelayMs, rt.attempt)
            IN [hooked EXCEPT !.pc = "backoff", !.wakeAt = t + delay,
                              !.delays = Append(@, delay)]
       ELSE [hooked EXCEPT !.pc = "thrown", !.result = error]

\* the backoff delay elapses: the next iteration calls fn again
retryResumed(rt) ==
    [rt EXCEPT !.pc = "call", !.attempt = @ + 1, !.invocations = @ + 1]

----------------------------------------------------------------------------
(* State after construction: empty store, default configuration *)

Addresses == {"A", "B"}

NoCall ==
    [n |-> 0, pair |-> NoPair, at |-> 0, tier |-> "none", exit |-> "source",
     windowBefore |-> 0, dormantBefore |-> FALSE, dormantAfter |-> FALSE,
     prev |-> NoAlerts, t25 |-> TRUE, t50 |-> TRUE]

NoTimers == [monitor |-> 0, discovery |-> 0, cleanup |-> 0]

\* what is recorded of an answer of the provider to the Universe: the
\* request (a launchpad search, or getTokenPairs of token), whether it
\* failed, and the records it returned
Fetched(op, token, failed, pairs) ==
    [op |-> op, token |-> token, failed |-> failed, pairs |-> pairs]

NoFetch == Fetched("none", "", FALSE, <<>>)

Init ==
    /\ now = StartTime
    /\ tokens = <<>>
    /\ alertThreshold25 = TRUE
    /\ alertThreshold50 = TRUE
    /\ alertLog = <<>>
    /\ lastCall = NoCall
    /\ evals = 0
    /\ ticks = 0
    /\ phase = "constructed"
    /\ isRunning = FALSE
    /\ trackedTokens = <<>>
    /\ isPaused = FALSE
    /\ timers = NoTimers
    /\ runs = <<>>
    /\ discoveries = <<>>
    /\ delivered = <<>>
    /\ requests = <<>>
    /\ calls = <<>>
    /\ retry = NoRetry
    /\ minTokenAgeHours = MIN_TOKEN_AGE_HOURS
    /\ lastFetch = NoFetch

StampsOf(T, a) == IF a \in DOMAIN T THEN T[a].lastAlertTimestamp ELSE NoAlerts

BaselineDormant(T, a, t) ==
    isDormant(T, a, dormantVolatilityThreshold, dormantVolumeThreshold,
              baselinePeriodMinutes, t)

\* what is recorded of the n-th checkForSpike call: record p, store T before
\* the call, result r
Observe(T, p, r, n, t25, t50, t) ==
    [n |-> n, pair |-> p, at |-> t, tier |-> r.tier, exit |-> r.exit,
     windowBefore |->
         Len(getSnapshotsInWindow(T, p.address, baselinePeriodMinutes, t)),
     dormantBefore |-> BaselineDormant(T, p.address, t),
     dormantAfter |-> BaselineDormant(r.tokens, p.address, t),
     prev |-> StampsOf(T, p.address),
     t25 |-> t25, t50 |-> t50]

\* one call checkForSpike(p), as checkMultiplePairs makes it for a record
CheckForSpike(p) ==
    LET r == checkForSpike(tokens, p, alertThreshold25, alertThreshold50, now)
    IN /\ tokens' = r.tokens
       /\ alertLog' = IF r.tier = "none" THEN alertLog
                      ELSE Append(alertLog, MakeAlert(p, r.tier, now))
       /\ lastCall' = Observe(tokens, p, r, evals + 1, alertThreshold25,
                              alertThreshold50, now)
       /\ evals' = evals + 1
       /\ UNCHANGED <<now, alertThreshold25, alertThreshold50, ticks>>
       /\ UNCHANGED <<minTokenAgeHours, lastFetch>>
       /\ UNCHANGED schedVars

\* the clock advances by d milliseconds
Tick(d) ==
    /\ now' = now + d
    /\ ticks' = ticks + 1
    /\ UNCHANGED <<tokens, alertThreshold25, alertThreshold50, alertLog,
                   lastCall, evals, minTokenAgeHours, lastFetch>>
    /\ UNCHANGED schedVars

\* Config.setAlertThreshold(tier, enabled)
SetAlertThreshold(tier, enabled) ==
    /\ IF tier = "25"
       THEN alertThreshold25' = enabled /\ UNCHANGED alertThreshold50
       ELSE alertThreshold50' = enabled /\ UNCHANGED alertThreshold25
    /\ UNCHANGED <<now, tokens, alertLog, lastCall, evals, ticks,
                   minTokenAgeHours, lastFetch>>
    /\ UNCHANGED schedVars

\* Config.setMinTokenAge(hours), as the /age command calls it (hours >= 0)
SetMinTokenAge(hours) ==
    /\ hours >= 0
    /\ minTokenAgeHours' = hours
    /\ UNCHANGED <<detectorVars, lastFetch>>
    /\ UNCHANGED schedVars

\* the cleanup timer's callback
Cleanup ==
    /\ tokens' = cleanupOldTokens(tokens, cleanupMaxAgeHours, now)
    /\ UNCHANGED <<now, alertThreshold25, alertThreshold50, alertLog,
                   lastCall, evals, ticks, minTokenAgeHours, lastFetch>>
    /\ UNCHANGED schedVars

----------------------------------------------------------------------------------------------------------------------------------------
(* Spec: the hard gates and the dormancy check, over every kind of record *)

Pairs ==
    {Quiet("A"), Spike30("A"), Jump30("A"), Loud30("A"), LowLiq30("A"),
     NoSource30("A")}

Delays == {31 * MinuteMs}

EvalStep == evals < MaxEvals /\ \E p \in Pairs : CheckForSpike(p)

TickStep == ticks < MaxTicks /\ \E d \in Delays : Tick(d)

Next == EvalStep \/ TickStep

Spec == Init /\ [][Next]_vars

----------------------------------------------------------------------------
(* SpecTier: tier selection under every setting of the two tier flags *)

TierPairs ==
    {Quiet("A"), Spike24("A"), Spike25("A"), Spike49("A"), Spike50("A"),
     Spike62("A")}

TierEvalStep == evals < MaxTierEvals /\ \E p \in TierPairs : CheckForSpike(p)

ThresholdStep ==
    \E tier \in {"25", "50"}, enabled \in BOOLEAN :
        /\ (IF tier = "25" THEN alertThreshold25 ELSE alertThreshold50)
               # enabled
        /\ SetAlertThreshold(tier, enabled)

NextTier == TierEvalStep \/ ThresholdStep

SpecTier == Init /\ [][NextTier]_vars

----------------------------------------------------------------------------
(* SpecGate: the eligibility gate, over every way a record can fail it *)

GatePairs ==
    {Quiet("A"), Spike30("A"), LowLiq30("A"), NoCap30("A"), BigCap30("A"),
     NoPrice30("A")}

GateEvalStep == evals < MaxEvals /\ \E p \in GatePairs : CheckForSpike(p)

NextGate == GateEvalStep \/ TickStep

SpecGate == Init /\ [][NextGate]_vars

----------------------------------------------------------------------------
(* SpecCool: repeated qualifying records over the cooldown and the idle    *)
(* horizon of the cleanup                                                   *)

CoolPairs == {Spike30("A"), Spike62("A")}

CoolDelays == {2 * MinuteMs, 29 * MinuteMs, 24 * HourMs}

CoolEvalStep == evals < MaxCoolEvals /\ \E p \in CoolPairs : CheckForSpike(p)

CoolTickStep == ticks < MaxCoolTicks /\ \E d \in CoolDelays : Tick(d)

CleanupStep == Cleanup

NextCool == CoolEvalStep \/ CoolTickStep \/ CleanupStep

SpecCool == Init /\ [][NextCool]_vars

----------------------------------------------------------------------------
(* SpecCap: one token polled once per polling interval, past the capacity  *)
(* of its snapshot sequence                                                 *)

CapEvalStep ==
    evals < MaxCapCalls /\ ticks = evals /\ CheckForSpike(Quiet("A"))

CapTickStep == ticks < evals /\ Tick(pollingIntervalMs)

NextCap == CapEvalStep \/ CapTickStep

SpecCap == Init /\ [][NextCap]_vars

----------------------------------------------------------------------------
(* SpecClean: two tokens seen at different times and the cleanup run at    *)
(* and around the idle horizon                                              *)

CleanPairs == {Quiet("A"), Quiet("B")}

CleanDelays == {HourMs, cleanupMaxAgeHours * HourMs}

CleanEvalStep ==
    evals < MaxCleanEvals /\ \E p \in CleanPairs : CheckForSpike(p)

CleanTickStep == ticks < MaxCleanTicks /\ \E d \in CleanDelays : Tick(d)

NextClean == CleanEvalStep \/ CleanTickStep \/ Cleanup

SpecClean == Init /\ [][NextClean]_vars

----------------------------------------------------------------------------
(* SpikeDetector.checkMultiplePairs *)

RECURSIVE CheckPairsFrom(_, _, _, _, _, _)
\* the for loop of checkMultiplePairs from the i-th record on; acc carries the
\* store, the alerts collected so far, and the store and result of the last
\* checkForSpike call
CheckPairsFrom(acc, pairs, i, t25, t50, t) ==
    IF i > Len(pairs) THEN acc
    ELSE LET r == checkForSpike(acc.tokens, pairs[i], t25, t50, t)
         IN IF r.exit = "error"
            THEN \* catch (error): logged, the loop goes on
                 CheckPairsFrom([acc EXCEPT !.prior = acc.tokens, !.last = r],
                                pairs, i + 1, t25, t50, t)
            ELSE CheckPairsFrom(
                [tokens |-> r.tokens,
                 alerts |-> IF r.tier = "none" THEN acc.alerts
                            ELSE Append(acc.alerts,
                                        MakeAlert(pairs[i], r.tier, t)),
                 prior |-> acc.tokens,
                 last |-> r],
                pairs, i + 1, t25, t50, t)

RECURSIVE CheckPairsUntilError(_, _, _, _, _, _)
CheckPairsUntilError(acc, pairs, i, t25, t50, t) ==
    IF i > Len(pairs) THEN acc
    ELSE LET r == checkForSpike(acc.tokens, pairs[i], t25, t50, t)
         IN IF r.exit = "error"
            THEN [acc EXCEPT !.prior = acc.tokens, !.last = r]
            ELSE CheckPairsUntilError(
                [tokens |-> r.tokens,
                 alerts |-> IF r.tier = "none" THEN acc.alerts
                            ELSE Append(acc.alerts,
                                        MakeAlert(pairs[i], r.tier, t)),
                 prior |-> acc.tokens,
                 last |-> r],
                pairs, i + 1, t25, t50, t)

checkMultiplePairs_CatchOutside(T, pairs, t25, t50, t) ==
    CheckPairsUntilError([tokens |-> T, alerts |-> <<>>, prior |-> T,
                          last |-> [tokens |-> T, tier |-> "none",
                                    exit |-> "source"]],
                         pairs, 1, t25, t50, t)

checkMultiplePairs(T, pairs, t25, t50, t) ==
    CheckPairsFrom([tokens |-> T, alerts |-> <<>>, prior |-> T,
                    last |-> [tokens |-> T, tier |-> "none",
                              exit |-> "source"]],
                   pairs, 1, t25, t50, t)

----------------------------------------------------------------------------
(* TokenUniverseManager *)

Contains(seq, x) == \E i \in 1..Len(seq) : seq[i] = x

Range(seq) == {seq[i] : i \in 1..Len(seq)}

\* Set.add: a JavaScript Set keeps insertion order and ignores a present key
SetAdd_Always(seq, x) == Append(seq, x)

SetAdd(seq, x) == IF Contains(seq, x) THEN seq ELSE Append(seq, x)

\* Set.delete
SetDelete(seq, x) ==
    LET Other(y) == y # x
    IN SelectSeq(seq, Other)

\* the predicate of filterEligiblePairs
EligiblePair(pair, t) ==
    /\ ~(pair.fdv >= maxMarketCap \/ pair.fdv = 0)
    /\ getTokenSource(pair) # "null"
    /\ ~(pair.priceUsd = ""
         \/ (~IsNaNText(pair.priceUsd) /\ parseFloat(pair.priceUsd) <= 0))
    /\ ~(pair.liquidityUsd < minLiquidityUsd)
    /\ (pair.pairCreatedAt # 0
        => ~(t - pair.pairCreatedAt < minTokenAgeHours * HourMs))

filterEligiblePairs(pairs, t) ==
    LET Eligible(pair) == EligiblePair(pair, t)
    IN SelectSeq(pairs, Eligible)

\* the for loop over eligiblePairs in discoverTokens, for one launchpad: the
\* addresses it pushes to discoveredTokens, in order
DiscoveredFrom(tracked, pairs, source) ==
    LET Adds(i) ==
            /\ getTokenSource(pairs[i]) = source
            /\ ~Contains(tracked, pairs[i].address)
            /\ \A j \in 1..(i - 1) :
                   ~(/\ getTokenSource(pairs[j]) = source
                     /\ pairs[j].address = pairs[i].address)
        added == SelectSeq([i \in 1..Len(pairs) |-> i], Adds)
    IN [k \in 1..Len(added) |-> pairs[added[k]].address]

\* one search result of discoverTokens applied to the tracked set
AddDiscovered(tracked, pairs, source, t) ==
    tracked \o DiscoveredFrom(tracked, filterEligiblePairs(pairs, t), source)

updateTokenEligibility(tracked, tokenAddress, pairs, t) ==
    IF filterEligiblePairs(pairs, t) # <<>>
    THEN SetAdd(tracked, tokenAddress)
    ELSE SetDelete(tracked, tokenAddress)

\* addToken: this.trackedTokens.add(tokenAddress)
addToken(tracked, tokenAddress) == SetAdd(tracked, tokenAddress)

\* removeToken: this.trackedTokens.delete(tokenAddress)
removeToken(tracked, tokenAddress) == SetDelete(tracked, tokenAddress)

----------------------------------------------------------------------------
(* SpikeDetectionService and TelegramBot.sendMultipleAlerts.  An async      *)
(* function is a record holding its local variables and the await it is    *)
(* suspended at; everything between two awaits is one step.  A delay(ms)   *)
(* records the time it is due at in wakeAt; the step that resumes it may  *)
(* be taken at any reading of the clock, and a specification that measures *)
(* time takes it only when Due.                                             *)

DoneRun ==
    [pc |-> "done", tracked |-> <<>>, i |-> 0, rt |-> NoRetry, wakeAt |-> 0,
     allAlerts |-> <<>>, k |-> 0]

\* what a monitor run does up to its next await: the run record there, the
\* limiter's requests, the provider calls it issued and the alerts it handed
\* to the bot
Outcome(run, reqs, issued, sent) ==
    [run |-> run, requests |-> reqs, issued |-> issued, sent |-> sent]

\* trackedTokens.slice(i, i + batchSize)
Batch(run) ==
    SubSeq(run.tracked, run.i + 1,
           IF run.i + batchSize < Len(run.tracked) THEN run.i + batchSize
           ELSE Len(run.tracked))

\* the body of the for loop of monitorTokens up to its first await:
\* waitForAvailability, then retry calls getMultipleTokenPairs, or the
\* delay of waitForAvailability when the limiter is full
StartBatch(run, reqs, t) ==
    LET pruned == PruneRequests(reqs, rateLimitWindowMs, t)
    IN IF canMakeRequest(pruned, rateLimitMaxRequests)
       THEN Outcome([run EXCEPT !.pc = "fetch",
                                !.rt = retryStart(monitorMaxRetries,
                                                  monitorRetryDelayMs)],
                    pruned, <<t>>, <<>>)
       ELSE Outcome([run EXCEPT !.pc = "limit",
                                !.wakeAt = t + WaitTime(pruned,
                                                        rateLimitWindowMs, t)],
                    pruned, <<>>, <<>>)

NewRun_IgnoresPause(tracked, paused, reqs, t) ==
    IF tracked = <<>> THEN Outcome(DoneRun, reqs, <<>>, <<>>)
    ELSE StartBatch([DoneRun EXCEPT !.tracked = tracked], reqs, t)

\* monitor(): returns when paused, else monitorTokens() up to its first await
NewRun(tracked, paused, reqs, t) ==
    IF paused \/ tracked = <<>> THEN Outcome(DoneRun, reqs, <<>>, <<>>)
    ELSE StartBatch([DoneRun EXCEPT !.tracked = tracked], reqs, t)

\* monitorTokens after its for loop: sendMultipleAlerts(allAlerts) up to the
\* delay after its first sendAlert; sent is what that sendAlert hands over
SendAlerts(run, paused, reqs, t) ==
    IF run.allAlerts = <<>> \/ paused
    THEN Outcome(DoneRun, reqs, <<>>, <<>>)
    ELSE Outcome([run EXCEPT !.pc = "send", !.k = 2,
                             !.wakeAt = t + alertDelayMs],
                 reqs, <<>>, <<run.allAlerts[1]>>)

NextBatch_SendsEarly(run, paused, reqs, t) ==
    SendAlerts(run, paused, reqs, t)

\* the increment and test of the for loop of monitorTokens
NextBatch(run, paused, reqs, t) ==
    IF run.i + batchSize < Len(run.tracked)
    THEN StartBatch([run EXCEPT !.i = run.i + batchSize], reqs, t)
    ELSE SendAlerts(run, paused, reqs, t)

\* run r goes on to the await of outcome out
Continue(r, out) ==
    /\ runs' = [runs EXCEPT ![r] = out.run]
    /\ requests' = out.requests
    /\ calls' = calls \o out.issued
    /\ delivered' = delivered \o out.sent

\* a run of monitor() begins
Begin(out) ==
    /\ runs' = Append(runs, out.run)
    /\ requests' = out.requests
    /\ calls' = calls \o out.issued

NewDiscovery(tracked) ==
    [pc |-> "pumpfun", existing |-> <<>>, j |-> 0, wakeAt |-> 0,
     before |-> tracked, discovered |-> <<>>]

DoneDiscovery ==
    [pc |-> "done", existing |-> <<>>, j |-> 0, wakeAt |-> 0,
     before |-> <<>>, discovered |-> <<>>]

InFlight(seq) == {r \in 1..Len(seq) : seq[r].pc # "done"}

\* start(): the service begins with the initial discovery
StartService ==
    /\ phase = "constructed" /\ ~isRunning
    /\ isRunning' = TRUE
    /\ phase' = "starting"
    /\ discoveries' = Append(discoveries, NewDiscovery(trackedTokens))
    /\ UNCHANGED <<trackedTokens, isPaused, timers, runs, delivered,
                   requests, calls, retry>>
    /\ UNCHANGED engineVars

\* stop(): clearInterval of the timers that are set
StopService ==
    /\ isRunning
    /\ isRunning' = FALSE
    /\ timers' = NoTimers
    /\ UNCHANGED <<phase, trackedTokens, isPaused, runs, discoveries,
                   delivered, requests, calls, retry>>
    /\ UNCHANGED engineVars

\* the setInterval(monitor) callback; the timer is re-armed from the time
\* the callback runs
MonitorTimerFire ==
    /\ timers.monitor # 0 /\ now >= timers.monitor
    /\ Begin(NewRun(trackedTokens, isPaused, requests, now))
    /\ timers' = [timers EXCEPT !.monitor = now + pollingIntervalMs]
    /\ UNCHANGED <<phase, isRunning, trackedTokens, isPaused, discoveries,
                   delivered, retry>>
    /\ UNCHANGED engineVars

\* the delay of waitForAvailability of run r elapses: the loop tests again
LimiterWaitElapsed(r) ==
    /\ r \in 1..Len(runs) /\ runs[r].pc = "limit"
    /\ Continue(r, StartBatch(runs[r], requests, now))
    /\ UNCHANGED <<phase, isRunning, trackedTokens, isPaused, timers,
                   discoveries, retry>>
    /\ UNCHANGED engineVars

\* getMultipleTokenPairs of run r resolves with the records pairs:
\* recordRequest, checkMultiplePairs, allAlerts.push, then delay(200)
BatchFetched(r, pairs) ==
    /\ r \in 1..Len(runs) /\ runs[r].pc = "fetch"
    /\ LET res == checkMultiplePairs(tokens, pairs, alertThreshold25,
                                     alertThreshold50, now)
       IN /\ tokens' = res.tokens
          /\ alertLog' = alertLog \o res.alerts
          /\ evals' = evals + Len(pairs)
          /\ lastCall' = IF pairs = <<>> THEN lastCall
                         ELSE Observe(res.prior, pairs[Len(pairs)], res.last,
                                      evals + Len(pairs), alertThreshold25,
                                      alertThreshold50, now)
          /\ runs' = [runs EXCEPT
                         ![r].pc = "delay",
                         ![r].rt = retryResolved(@, "pairs"),
                         ![r].wakeAt = now + batchDelayMs,
                         ![r].allAlerts = @ \o res.alerts]
    /\ requests' = recordRequest(requests, now)
    /\ UNCHANGED <<now, alertThreshold25, alertThreshold50, ticks,
                   minTokenAgeHours, lastFetch>>
    /\ UNCHANGED <<phase, isRunning, trackedTokens, isPaused, timers,
                   discoveries, delivered, calls, retry>>

\* getMultipleTokenPairs of run r rejects and attempts remain: retry logs
\* the error and delays
AttemptFailed(r, error) ==
    /\ r \in 1..Len(runs) /\ runs[r].pc = "fetch"
    /\ runs[r].rt.attempt < runs[r].rt.maxRetries
    /\ runs' = [runs EXCEPT ![r].pc = "backoff",
                            ![r].rt = retryRejected(@, error, now)]
    /\ UNCHANGED <<phase, isRunning, trackedTokens, isPaused, timers,
                   discoveries, delivered, requests, calls, retry>>
    /\ UNCHANGED engineVars

\* the backoff delay of run r elapses: retry calls getMultipleTokenPairs
\* again
BackoffElapsed(r) ==
    /\ r \in 1..Len(runs) /\ runs[r].pc = "backoff"
    /\ runs' = [runs EXCEPT ![r].pc = "fetch",
                            ![r].rt = retryResumed(@)]
    /\ calls' = Append(calls, now)
    /\ UNCHANGED <<phase, isRunning, trackedTokens, isPaused, timers,
                   discoveries, delivered, requests, retry>>
    /\ UNCHANGED engineVars

\* getMultipleTokenPairs of run r rejects at the last attempt: retry throws,
\* the catch of monitorTokens logs it and the loop goes on without the delay
BatchFailed_AbortsRun(r, error) ==
    /\ r \in 1..Len(runs) /\ runs[r].pc = "fetch"
    /\ ~(runs[r].rt.attempt < runs[r].rt.maxRetries)
    /\ Continue(r, Outcome(DoneRun, requests, <<>>, <<>>))
    /\ UNCHANGED <<phase, isRunning, trackedTokens, isPaused, timers,
                   discoveries, retry>>
    /\ UNCHANGED engineVars

BatchFailed(r, error) ==
    /\ r \in 1..Len(runs) /\ runs[r].pc = "fetch"
    /\ ~(runs[r].rt.attempt < runs[r].rt.maxRetries)
    /\ Continue(r, NextBatch([runs[r] EXCEPT
                                 !.rt = retryRejected(@, error, now)],
                             isPaused, requests, now))
    /\ UNCHANGED <<phase, isRunning, trackedTokens, isPaused, timers,
                   discoveries, retry>>
    /\ UNCHANGED engineVars

DelayElapsed_Refreshes(r) ==
    /\ r \in 1..Len(runs) /\ runs[r].pc = "delay"
    /\ Continue(r, NextBatch([runs[r] EXCEPT !.tracked = trackedTokens],
                             isPaused, requests, now))
    /\ UNCHANGED <<phase, isRunning, trackedTokens, isPaused, timers,
                   discoveries, retry>>
    /\ UNCHANGED engineVars

\* delay(200) after a batch of run r elapses
DelayElapsed(r) ==
    /\ r \in 1..Len(runs) /\ runs[r].pc = "delay"
    /\ Continue(r, NextBatch(runs[r], isPaused, requests, now))
    /\ UNCHANGED <<phase, isRunning, trackedTokens, isPaused, timers,
                   discoveries, retry>>
    /\ UNCHANGED engineVars

\* sendMultipleAlerts of run r after a sendAlert and its delay(500): the next
\* sendAlert, which returns without sending when paused, or the end
SendNext(r) ==
    /\ r \in 1..Len(runs) /\ runs[r].pc = "send"
    /\ IF runs[r].k > Len(runs[r].allAlerts)
       THEN /\ runs' = [runs EXCEPT ![r] = DoneRun]
            /\ UNCHANGED delivered
       ELSE /\ runs' = [runs EXCEPT ![r].k = @ + 1,
                                    ![r].wakeAt = now + alertDelayMs]
            /\ delivered' = IF isPaused THEN delivered
                            ELSE Append(delivered,
                                        runs[r].allAlerts[runs[r].k])
    /\ UNCHANGED <<phase, isRunning, trackedTokens, isPaused, timers,
                   discoveries, requests, calls, retry>>
    /\ UNCHANGED engineVars

\* /pause and /resume
Pause ==
    /\ ~isPaused
    /\ isPaused' = TRUE
    /\ UNCHANGED <<phase, isRunning, trackedTokens, timers, runs,
                   discoveries, delivered, requests, calls, retry>>
    /\ UNCHANGED engineVars

Resume ==
    /\ isPaused
    /\ isPaused' = FALSE
    /\ UNCHANGED <<phase, isRunning, trackedTokens, timers, runs,
                   discoveries, delivered, requests, calls, retry>>
    /\ UNCHANGED engineVars

\* the setInterval(discover) callback
DiscoveryTimerFire ==
    /\ timers.discovery # 0 /\ now >= timers.discovery
    /\ discoveries' = Append(discoveries, NewDiscovery(trackedTokens))
    /\ timers' = [timers EXCEPT !.discovery = now + discoveryIntervalMs]
    /\ UNCHANGED <<phase, isRunning, trackedTokens, isPaused, runs,
                   delivered, requests, calls, retry>>
    /\ UNCHANGED engineVars

\* discovery run d returns with the tracked set tracked: when it is the
\* initial discovery, start() goes on: the first monitor run and the three
\* timers
DiscoveryReturns(d, tracked) ==
    IF phase = "starting" /\ d = 1
    THEN /\ phase' = "running"
         /\ Begin(NewRun(tracked, isPaused, requests, now))
         /\ timers' = [monitor |-> now + pollingIntervalMs,
                       discovery |-> now + discoveryIntervalMs,
                       cleanup |-> now + cleanupIntervalMs]
    ELSE UNCHANGED <<phase, runs, timers, requests, calls>>

\* discoverTokens of the service after the universe's discoverTokens: the
\* revalidation loop over a copy of the tracked set
Revalidate(d, tracked) ==
    IF tracked = <<>>
    THEN /\ discoveries' = [discoveries EXCEPT ![d] = DoneDiscovery]
         /\ DiscoveryReturns(d, tracked)
    ELSE /\ discoveries' = [discoveries EXCEPT
                               ![d].pc = "reval", ![d].existing = tracked,
                               ![d].j = 1]
         /\ UNCHANGED <<phase, runs, timers, requests, calls>>

\* searchPairs('pumpfun') of discovery run d resolves; delay(500) follows
PumpfunSearched(d, pairs) ==
    /\ d \in 1..Len(discoveries) /\ discoveries[d].pc = "pumpfun"
    /\ LET tracked == AddDiscovered(trackedTokens, pairs, "pumpfun", now)
       IN /\ trackedTokens' = tracked
          /\ discoveries' =
                 [discoveries EXCEPT
                     ![d].pc = "bonk",
                     ![d].wakeAt = now + searchDelayMs,
                     ![d].discovered =
                         @ \o SubSeq(tracked, Len(trackedTokens) + 1,
                                     Len(tracked))]
    /\ UNCHANGED <<phase, isRunning, isPaused, timers, runs, delivered,
                   requests, calls, retry>>
    /\ lastFetch' = Fetched("pumpfun", "", FALSE, pairs)
    /\ UNCHANGED <<detectorVars, minTokenAgeHours>>

\* searchPairs('pumpfun') of discovery run d fails: no delay
PumpfunFailed(d) ==
    /\ d \in 1..Len(discoveries) /\ discoveries[d].pc = "pumpfun"
    /\ discoveries' = [discoveries EXCEPT ![d].pc = "bonk",
                                          ![d].wakeAt = now]
    /\ UNCHANGED <<phase, isRunning, trackedTokens, isPaused, timers, runs,
                   delivered, requests, calls, retry>>
    /\ lastFetch' = Fetched("pumpfun", "", TRUE, <<>>)
    /\ UNCHANGED <<detectorVars, minTokenAgeHours>>

\* searchPairs('bonk') of discovery run d resolves; delay(500) follows
BonkSearched(d, pairs) ==
    /\ d \in 1..Len(discoveries) /\ discoveries[d].pc = "bonk"
    /\ LET tracked == AddDiscovered(trackedTokens, pairs, "bonk", now)
       IN /\ trackedTokens' = tracked
          /\ discoveries' =
                 [discoveries EXCEPT
                     ![d].pc = "settle",
                     ![d].wakeAt = now + searchDelayMs,
                     ![d].discovered =
                         @ \o SubSeq(tracked, Len(trackedTokens) + 1,
                                     Len(tracked))]
    /\ UNCHANGED <<phase, isRunning, isPaused, timers, runs, delivered,
                   requests, calls, retry>>
    /\ lastFetch' = Fetched("bonk", "", FALSE, pairs)
    /\ UNCHANGED <<detectorVars, minTokenAgeHours>>

BonkFailed_Propagates(d) ==
    /\ d \in 1..Len(discoveries) /\ discoveries[d].pc = "bonk"
    /\ discoveries' = [discoveries EXCEPT ![d] = DoneDiscovery]
    /\ UNCHANGED <<phase, runs, timers, requests, calls>>
    /\ UNCHANGED <<isRunning, trackedTokens, isPaused, delivered, retry>>
    /\ lastFetch' = Fetched("bonk", "", TRUE, <<>>)
    /\ UNCHANGED <<detectorVars, minTokenAgeHours>>

\* searchPairs('bonk') of discovery run d fails: no delay
BonkFailed(d) ==
    /\ d \in 1..Len(discoveries) /\ discoveries[d].pc = "bonk"
    /\ Revalidate(d, trackedTokens)
    /\ UNCHANGED <<isRunning, trackedTokens, isPaused, delivered, retry>>
    /\ lastFetch' = Fetched("bonk", "", TRUE, <<>>)
    /\ UNCHANGED <<detectorVars, minTokenAgeHours>>

\* delay(500) after the bonk search of discovery run d elapses
DiscoverySettled(d) ==
    /\ d \in 1..Len(discoveries) /\ discoveries[d].pc = "settle"
    /\ Revalidate(d, trackedTokens)
    /\ UNCHANGED <<isRunning, trackedTokens, isPaused, delivered, retry>>
    /\ UNCHANGED engineVars

\* the end of one iteration of the revalidation loop of discovery run d
RevalidationNext(d, tracked) ==
    IF discoveries[d].j >= Len(discoveries[d].existing)
    THEN /\ discoveries' = [discoveries EXCEPT ![d] = DoneDiscovery]
         /\ DiscoveryReturns(d, tracked)
    ELSE /\ discoveries' = [discoveries EXCEPT ![d].j = @ + 1]
         /\ UNCHANGED <<phase, runs, timers, requests, calls>>

\* getTokenPairs of updateTokenEligibility resolves in discovery run d
Revalidated_DropsState(d, pairs) ==
    /\ d \in 1..Len(discoveries) /\ discoveries[d].pc = "reval"
    /\ LET tracked == updateTokenEligibility(
                          trackedTokens,
                          discoveries[d].existing[discoveries[d].j],
                          pairs, now)
       IN /\ trackedTokens' = tracked
          /\ tokens' = [a \in {x \in DOMAIN tokens : Contains(tracked, x)}
                           |-> tokens[a]]
          /\ RevalidationNext(d, tracked)
    /\ lastFetch' = Fetched("reval", discoveries[d].existing[discoveries[d].j],
                         FALSE, pairs)
    /\ UNCHANGED <<isRunning, isPaused, delivered, retry>>
    /\ UNCHANGED <<now, alertThreshold25, alertThreshold50, alertLog,
                   lastCall, evals, ticks, minTokenAgeHours>>

Revalidated(d, pairs) ==
    /\ d \in 1..Len(discoveries) /\ discoveries[d].pc = "reval"
    /\ LET tracked == updateTokenEligibility(
                          trackedTokens,
                          discoveries[d].existing[discoveries[d].j],
                          pairs, now)
       IN /\ trackedTokens' = tracked
          /\ RevalidationNext(d, tracked)
    /\ UNCHANGED <<isRunning, isPaused, delivered, retry>>
    /\ lastFetch' = Fetched("reval", discoveries[d].existing[discoveries[d].j],
                         FALSE, pairs)
    /\ UNCHANGED <<detectorVars, minTokenAgeHours>>

\* getTokenPairs of updateTokenEligibility fails in discovery run d
RevalidationFailed(d) ==
    /\ d \in 1..Len(discoveries) /\ discoveries[d].pc = "reval"
    /\ RevalidationNext(d, trackedTokens)
    /\ UNCHANGED <<isRunning, trackedTokens, isPaused, delivered, retry>>
    /\ lastFetch' = Fetched("reval", discoveries[d].existing[discoveries[d].j],
                         TRUE, <<>>)
    /\ UNCHANGED <<detectorVars, minTokenAgeHours>>

CleanupTimerFire_ClearsStamps ==
    /\ timers.cleanup # 0 /\ now >= timers.cleanup
    /\ LET kept == cleanupOldTokens(tokens, cleanupMaxAgeHours, now)
       IN tokens' = [a \in DOMAIN kept |->
                       [kept[a] EXCEPT !.lastAlertTimestamp = NoAlerts]]
    /\ timers' = [timers EXCEPT !.cleanup = now + cleanupIntervalMs]
    /\ UNCHANGED <<now, alertThreshold25, alertThreshold50, alertLog,
                   lastCall, evals, ticks, minTokenAgeHours, lastFetch>>
    /\ UNCHANGED <<phase, isRunning, trackedTokens, isPaused, runs,
                   discoveries, delivered, requests, calls, retry>>

\* the setInterval(cleanup) callback
CleanupTimerFire ==
    /\ timers.cleanup # 0 /\ now >= timers.cleanup
    /\ tokens' = cleanupOldTokens(tokens, cleanupMaxAgeHours, now)
    /\ timers' = [timers EXCEPT !.cleanup = now + cleanupIntervalMs]
    /\ UNCHANGED <<now, alertThreshold25, alertThreshold50, alertLog,
                   lastCall, evals, ticks, minTokenAgeHours, lastFetch>>
    /\ UNCHANGED <<phase, isRunning, trackedTokens, isPaused, runs,
                   discoveries, delivered, requests, calls, retry>>

----------------------------------------------------------------------------
(* SpecSched: the service from start(), one launchpad token, its timers    *)
(* and its awaits resolving in any order                                    *)

SchedPairs == {Spike30("A")}

SchedDelays == {pollingIntervalMs, cleanupIntervalMs}

\* the response to a batch holds no record, or MaxResponse records of one
\* token of the batch
BatchResponses(batch) ==
    {<<>>} \cup {[i \in 1..MaxResponse |-> p] :
                    p \in {q \in SchedPairs : Contains(batch, q.address)}}

SearchResults == {<<>>} \cup {<<p>> : p \in SchedPairs}

\* the runs a timer may start are capped at MaxRuns
MonitorTimerStep ==
    Len(runs) + Len(discoveries) < MaxRuns /\ MonitorTimerFire

DiscoveryTimerStep ==
    Len(runs) + Len(discoveries) < MaxRuns /\ DiscoveryTimerFire

SchedTickStep == ticks < MaxSchedTicks /\ \E d \in SchedDelays : Tick(d)

BatchFetchedStep ==
    \E r \in 1..Len(runs) : \E pairs \in BatchResponses(Batch(runs[r])) :
        BatchFetched(r, pairs)

AttemptFailedStep == \E r \in 1..Len(runs) : AttemptFailed(r, "network")

BackoffElapsedStep == \E r \in 1..Len(runs) : BackoffElapsed(r)

BatchFailedStep == \E r \in 1..Len(runs) : BatchFailed(r, "network")

DelayElapsedStep == \E r \in 1..Len(runs) : DelayElapsed(r)

SendNextStep == \E r \in 1..Len(runs) : SendNext(r)

PumpfunSearchedStep ==
    \E d \in 1..Len(discoveries) : \E pairs \in SearchResults :
        PumpfunSearched(d, pairs)

PumpfunFailedStep == \E d \in 1..Len(discoveries) : PumpfunFailed(d)

BonkSearchedStep ==
    \E d \in 1..Len(discoveries) : \E pairs \in SearchResults :
        BonkSearched(d, pairs)

BonkFailedStep == \E d \in 1..Len(discoveries) : BonkFailed(d)

DiscoverySettledStep == \E d \in 1..Len(discoveries) : DiscoverySettled(d)

RevalidatedStep ==
    \E d \in 1..Len(discoveries) : \E pairs \in SearchResults :
        Revalidated(d, pairs)

RevalidationFailedStep ==
    \E d \in 1..Len(discoveries) : RevalidationFailed(d)

NextSched ==
    \/ StartService
    \/ SchedTickStep
    \/ MonitorTimerStep
    \/ BatchFetchedStep
    \/ DelayElapsedStep
    \/ SendNextStep
    \/ DiscoveryTimerStep
    \/ PumpfunFailedStep
    \/ PumpfunSearchedStep
    \/ DiscoverySettledStep
    \/ BonkFailedStep
    \/ BonkSearchedStep
    \/ RevalidationFailedStep
    \/ RevalidatedStep
    \/ CleanupTimerFire

SpecSched == Init /\ [][NextSched]_vars

----------------------------------------------------------------------------
(* SpecOrder: several monitor runs in flight at once, their fetches         *)
(* resolving in any order while the clock moves on                          *)

\* two records of one token of the batch
OrderResponses(batch) ==
    {<<p, p>> : p \in {q \in SchedPairs : Contains(batch, q.address)}}

OrderMonitorTimerStep == Len(runs) < MaxOrderRuns /\ MonitorTimerFire

OrderTickStep == ticks < MaxOrderTicks /\ Tick(pollingIntervalMs)

OrderBatchFetchedStep ==
    \E r \in 1..Len(runs) : \E pairs \in OrderResponses(Batch(runs[r])) :
        BatchFetched(r, pairs)

NextOrder ==
    \/ StartService
    \/ PumpfunSearchedStep
    \/ BonkSearchedStep
    \/ DiscoverySettledStep
    \/ RevalidatedStep
    \/ OrderTickStep
    \/ OrderMonitorTimerStep
    \/ OrderBatchFetchedStep
    \/ DelayElapsedStep
    \/ SendNextStep

SpecOrder == Init /\ [][NextOrder]_vars

----------------------------------------------------------------------------
(* SpecPause: the service with /pause and /resume arriving at any moment   *)
(* of a monitor run                                                         *)

NextPause ==
    \/ StartService
    \/ SchedTickStep
    \/ MonitorTimerStep
    \/ BatchFetchedStep
    \/ DelayElapsedStep
    \/ SendNextStep
    \/ Pause
    \/ Resume
    \/ DiscoveryTimerStep
    \/ PumpfunFailedStep
    \/ PumpfunSearchedStep
    \/ DiscoverySettledStep
    \/ BonkFailedStep
    \/ BonkSearchedStep
    \/ RevalidationFailedStep
    \/ RevalidatedStep
    \/ CleanupTimerFire

SpecPause == Init /\ [][NextPause]_vars

----------------------------------------------------------------------------
(* SpecStop: start() and stop() in any interleaving, the timers and the    *)
(* runs they start                                                          *)

NextStop ==
    \/ StartService
    \/ StopService
    \/ SchedTickStep
    \/ MonitorTimerStep
    \/ BatchFetchedStep
    \/ DelayElapsedStep
    \/ SendNextStep
    \/ DiscoveryTimerStep
    \/ PumpfunFailedStep
    \/ PumpfunSearchedStep
    \/ DiscoverySettledStep
    \/ BonkFailedStep
    \/ BonkSearchedStep
    \/ RevalidationFailedStep
    \/ RevalidatedStep
    \/ CleanupTimerFire

SpecStop == Init /\ [][NextStop]_vars

----------------------------------------------------------------------------
(* SpecRetry: calls of ErrorHandler.retry with the arguments the service   *)
(* uses and operations that resolve or reject in any pattern                *)

RetryDelayValues == {monitorRetryDelayMs, discoverRetryDelayMs}

RetryDelays == {monitorRetryDelayMs, discoverRetryDelayMs,
                2 * discoverRetryDelayMs}

\* retry(fn, maxRetries, initialDelayMs, onError) is called
RetryCalled(maxRetries, initialDelayMs) ==
    /\ retry.pc \in {"idle", "returned", "thrown"}
    /\ retry' = retryStart(maxRetries, initialDelayMs)
    /\ UNCHANGED <<phase, isRunning, trackedTokens, isPaused, timers, runs,
                   discoveries, delivered, requests, calls>>
    /\ UNCHANGED engineVars

\* fn() resolves
RetryFnResolved ==
    /\ retry.pc = "call"
    /\ retry' = retryResolved(retry, "value")
    /\ UNCHANGED <<phase, isRunning, trackedTokens, isPaused, timers, runs,
                   discoveries, delivered, requests, calls>>
    /\ UNCHANGED engineVars

\* fn() rejects with an error of kind error
RetryFnRejected(error) ==
    /\ retry.pc = "call"
    /\ retry' = retryRejected(retry, error, now)
    /\ UNCHANGED <<phase, isRunning, trackedTokens, isPaused, timers, runs,
                   discoveries, delivered, requests, calls>>
    /\ UNCHANGED engineVars

\* the delay of retry elapses
RetryBackoffElapsed ==
    /\ retry.pc = "backoff"
    /\ now >= retry.wakeAt
    /\ retry' = retryResumed(retry)
    /\ UNCHANGED <<phase, isRunning, trackedTokens, isPaused, timers, runs,
                   discoveries, delivered, requests, calls>>
    /\ UNCHANGED engineVars

RetryCalledStep ==
    \E maxRetries \in 1..MaxRetryAttempts :
        \E initialDelayMs \in RetryDelayValues :
            RetryCalled(maxRetries, initialDelayMs)

RetryFnRejectedStep == \E error \in ErrorKinds : RetryFnRejected(error)

RetryTickStep == ticks < MaxRetryTicks /\ \E d \in RetryDelays : Tick(d)

NextRetry ==
    \/ RetryCalledStep
    \/ RetryFnResolved
    \/ RetryFnRejectedStep
    \/ RetryBackoffElapsed
    \/ RetryTickStep

SpecRetry == Init /\ [][NextRetry]_vars

----------------------------------------------------------------------------
(* SpecBatch: a universe of batchSize + 1 tokens, so that the monitor run   *)
(* of start() has two batches, and bulk requests that fail or resolve at   *)
(* each attempt                                                             *)

BatchUniverse ==
    <<
      "T01", "T02", "T03", "T04", "T05", "T06", "T07", "T08", "T09",
      "T10", "T11", "T12", "T13", "T14", "T15", "T16", "T17", "T18",
      "T19", "T20", "T21", "T22", "T23", "T24", "T25", "T26", "T27",
      "T28", "T29", "T30", "T31"
    >>

FirstToken == BatchUniverse[1]

LastToken == BatchUniverse[Len(BatchUniverse)]

\* the search result that lists every token of the universe
BatchSearchResult == [i \in 1..Len(BatchUniverse) |-> Spike30(BatchUniverse[i])]

BatchPairs == {Spike30(FirstToken), Spike30(LastToken)}

\* the response to a batch holds no record, or MaxResponse records of one
\* token of the batch
BulkResponses(batch) ==
    {<<>>} \cup {[i \in 1..MaxResponse |-> p] :
                    p \in {q \in BatchPairs : Contains(batch, q.address)}}

BatchSearchedStep ==
    \E d \in 1..Len(discoveries) : PumpfunSearched(d, BatchSearchResult)

BulkFetchedStep ==
    \E r \in 1..Len(runs) : \E pairs \in BulkResponses(Batch(runs[r])) :
        BatchFetched(r, pairs)

NextBatchSpec ==
    \/ StartService
    \/ BatchSearchedStep
    \/ BonkFailedStep
    \/ RevalidationFailedStep
    \/ AttemptFailedStep
    \/ BackoffElapsedStep
    \/ BatchFailedStep
    \/ BulkFetchedStep
    \/ DelayElapsedStep
    \/ SendNextStep

SpecBatch == Init /\ [][NextBatchSpec]_vars

----------------------------------------------------------------------------
(* SpecUniverse: the Universe under discovery, revalidation and calls of   *)
(* addToken, with a pair that reaches the minimum age while the service    *)
(* runs                                                                     *)

\* a pair created ten minutes before the service starts
Young30(a) == [Spike30(a) EXCEPT !.pairCreatedAt = StartTime - 10 * MinuteMs]

UniverseAddresses == {"A", "B"}

UniversePairs == {Spike30("A"), Young30("B")}

UniverseResults == {<<>>} \cup {<<p>> : p \in UniversePairs}

UniverseDelays == {discoveryIntervalMs}

Launchpads == {"pumpfun", "bonk"}

\* addToken(tokenAddress) is called
AddToken(tokenAddress) ==
    /\ trackedTokens' = addToken(trackedTokens, tokenAddress)
    /\ UNCHANGED <<phase, isRunning, isPaused, timers, runs, discoveries,
                   delivered, requests, calls, retry>>
    /\ UNCHANGED engineVars

\* removeToken(tokenAddress) is called
RemoveToken(tokenAddress) ==
    /\ trackedTokens' = removeToken(trackedTokens, tokenAddress)
    /\ UNCHANGED <<phase, isRunning, isPaused, timers, runs, discoveries,
                   delivered, requests, calls, retry>>
    /\ UNCHANGED engineVars

AddTokenStep == \E a \in UniverseAddresses : AddToken(a)

RemoveTokenStep == \E a \in UniverseAddresses : RemoveToken(a)

UniverseTickStep ==
    ticks < MaxUniverseTicks /\ \E d \in UniverseDelays : Tick(d)

UniversePumpfunStep ==
    \E d \in 1..Len(discoveries) : \E pairs \in UniverseResults :
        PumpfunSearched(d, pairs)

UniverseBonkStep ==
    \E d \in 1..Len(discoveries) : \E pairs \in UniverseResults :
        BonkSearched(d, pairs)

\* getTokenPairs answers with no pair or with a pair of the token asked for
UniverseRevalidatedStep ==
    \E d \in 1..Len(discoveries) : \E pairs \in UniverseResults :
        /\ discoveries[d].pc = "reval"
        /\ \A i \in 1..Len(pairs) :
               pairs[i].address = discoveries[d].existing[discoveries[d].j]
        /\ Revalidated(d, pairs)

NextUniverse ==
    \/ StartService
    \/ AddTokenStep
    \/ UniverseTickStep
    \/ DiscoveryTimerStep
    \/ PumpfunFailedStep
    \/ UniversePumpfunStep
    \/ DiscoverySettledStep
    \/ BonkFailedStep
    \/ UniverseBonkStep
    \/ RevalidationFailedStep
    \/ UniverseRevalidatedStep

SpecUniverse == Init /\ [][NextUniverse]_vars

----------------------------------------------------------------------------
(* SpecDiscover: discovery over search results that fail the eligibility   *)
(* filter in every way, next to results that pass it                        *)

\* a pair created two hours before the service starts
Old30(a) == [Spike30(a) EXCEPT !.pairCreatedAt = StartTime - 2 * HourMs]

ZeroPrice30(a) == [Spike30(a) EXCEPT !.priceUsd = "0"]

DiscoverPairs ==
    {Spike30("A"), Old30("A"), LowLiq30("A"), NoCap30("A"), NoPrice30("A"),
     Spike62("B"), Young30("B"), NoSource30("B"), BigCap30("B"),
     ZeroPrice30("B")}

\* a search answers with one pair, or with a pair that fails the filter
\* followed by a pair of the other token
DiscoverResults ==
    {<<p>> : p \in DiscoverPairs}
        \cup {<<Young30("B"), Old30("A")>>, <<LowLiq30("A"), Spike62("B")>>}

DiscoverPumpfunStep ==
    \E d \in 1..Len(discoveries) : \E pairs \in DiscoverResults :
        PumpfunSearched(d, pairs)

DiscoverBonkStep ==
    \E d \in 1..Len(discoveries) : \E pairs \in DiscoverResults :
        BonkSearched(d, pairs)

\* getTokenPairs answers with the token's pair as it was found
DiscoverRevalidatedStep ==
    \E d \in 1..Len(discoveries) :
        \E p \in {Spike30("A"), Spike62("B"), Young30("B")} :
            /\ discoveries[d].pc = "reval"
            /\ p.address = discoveries[d].existing[discoveries[d].j]
            /\ Revalidated(d, <<p>>)

NextDiscover ==
    \/ StartService
    \/ UniverseTickStep
    \/ DiscoveryTimerStep
    \/ DiscoverPumpfunStep
    \/ DiscoverBonkStep
    \/ DiscoverySettledStep
    \/ DiscoverRevalidatedStep

SpecDiscover == Init /\ [][NextDiscover]_vars

----------------------------------------------------------------------------
(* detector/TokenUniverseManager.ts, the module SpikeDetectionService      *)
(* imports: its discoverTokens searches four terms in turn and its filter  *)
(* has no liquidity floor                                                   *)

detector_EligiblePair(pair, t) ==
    /\ ~(pair.fdv >= maxMarketCap \/ pair.fdv = 0)
    /\ getTokenSource(pair) # "null"
    /\ ~(pair.priceUsd = ""
         \/ (~IsNaNText(pair.priceUsd) /\ parseFloat(pair.priceUsd) <= 0))
    /\ (pair.pairCreatedAt # 0
        => ~(t - pair.pairCreatedAt < minTokenAgeHours * HourMs))

detector_filterEligiblePairs(pairs, t) ==
    LET Eligible(pair) == detector_EligiblePair(pair, t)
    IN SelectSeq(pairs, Eligible)

\* the for loop over eligiblePairs: the addresses pushed, in order
detector_Discovered(tracked, pairs) ==
    LET Adds(i) ==
            /\ ~Contains(tracked, pairs[i].address)
            /\ \A j \in 1..(i - 1) : pairs[j].address # pairs[i].address
        added == SelectSeq([i \in 1..Len(pairs) |-> i], Adds)
    IN [k \in 1..Len(added) |-> pairs[added[k]].address]

detector_updateTokenEligibility(tracked, tokenAddress, pairs, t) ==
    IF detector_filterEligiblePairs(pairs, t) # <<>>
    THEN SetAdd(tracked, tokenAddress)
    ELSE SetDelete(tracked, tokenAddress)

\* the search terms, in the order discoverTokens uses them
detector_Terms == <<"pump", "PUMP", "bonk", "bags">>

detector_TermAfter(term) ==
    detector_Terms[1 + CHOOSE i \in 1..3 : detector_Terms[i] = term]

detector_NewDiscovery(tracked) ==
    [NewDiscovery(tracked) EXCEPT !.pc = detector_Terms[1]]

\* start(): the service begins with the initial discovery
detector_StartService ==
    /\ phase = "constructed" /\ ~isRunning
    /\ isRunning' = TRUE
    /\ phase' = "starting"
    /\ discoveries' = Append(discoveries, detector_NewDiscovery(trackedTokens))
    /\ UNCHANGED <<trackedTokens, isPaused, timers, runs, delivered,
                   requests, calls, retry>>
    /\ UNCHANGED engineVars

\* searchPairs(term) of discovery run d resolves: the eligible pairs not yet
\* tracked are added; after 'bags' the service's revalidation loop follows
detector_Searched(d, pairs) ==
    /\ d \in 1..Len(discoveries)
    /\ discoveries[d].pc \in Range(detector_Terms)
    /\ LET found == detector_Discovered(
                        trackedTokens, detector_filterEligiblePairs(pairs, now))
           tracked == trackedTokens \o found
       IN /\ trackedTokens' = tracked
          /\ IF discoveries[d].pc = "bags"
             THEN Revalidate(d, tracked)
             ELSE /\ discoveries' =
                         [discoveries EXCEPT
                             ![d].pc = detector_TermAfter(@),
                             ![d].wakeAt = now + searchDelayMs,
                             ![d].discovered = @ \o found]
                  /\ UNCHANGED <<phase, runs, timers, requests, calls>>
    /\ UNCHANGED <<isRunning, isPaused, delivered, retry>>
    /\ lastFetch' = Fetched(discoveries[d].pc, "", FALSE, pairs)
    /\ UNCHANGED <<detectorVars, minTokenAgeHours>>

\* searchPairs(term) of discovery run d fails: logged, the next term follows
detector_SearchFailed(d) ==
    /\ d \in 1..Len(discoveries)
    /\ discoveries[d].pc \in Range(detector_Terms)
    /\ IF discoveries[d].pc = "bags"
       THEN Revalidate(d, trackedTokens)
       ELSE /\ discoveries' = [discoveries EXCEPT
                                  ![d].pc = detector_TermAfter(@),
                                  ![d].wakeAt = now]
            /\ UNCHANGED <<phase, runs, timers, requests, calls>>
    /\ UNCHANGED <<isRunning, trackedTokens, isPaused, delivered, retry>>
    /\ lastFetch' = Fetched(discoveries[d].pc, "", TRUE, <<>>)
    /\ UNCHANGED <<detectorVars, minTokenAgeHours>>

\* getTokenPairs of updateTokenEligibility resolves in discovery run d
detector_Revalidated(d, pairs) ==
    /\ d \in 1..Len(discoveries) /\ discoveries[d].pc = "reval"
    /\ LET tracked == detector_updateTokenEligibility(
                          trackedTokens,
                          discoveries[d].existing[discoveries[d].j],
                          pairs, now)
       IN /\ trackedTokens' = tracked
          /\ RevalidationNext(d, tracked)
    /\ UNCHANGED <<isRunning, isPaused, delivered, retry>>
    /\ lastFetch' = Fetched("reval", discoveries[d].existing[discoveries[d].j],
                         FALSE, pairs)
    /\ UNCHANGED <<detectorVars, minTokenAgeHours>>

----------------------------------------------------------------------------
(* SpecDetector: the discovery of detector/TokenUniverseManager.ts over    *)
(* the search results of SpecDiscover                                       *)

DetectorSearchedStep ==
    \E d \in 1..Len(discoveries) : \E pairs \in DiscoverResults :
        detector_Searched(d, pairs)

DetectorSearchFailedStep ==
    \E d \in 1..Len(discoveries) : detector_SearchFailed(d)

DetectorRevalidatedStep ==
    \E d \in 1..Len(discoveries) : \E p \in DiscoverPairs :
        /\ discoveries[d].pc = "reval"
        /\ p.address = discoveries[d].existing[discoveries[d].j]
        /\ detector_Revalidated(d, <<p>>)

NextDetector ==
    \/ detector_StartService
    \/ DetectorSearchedStep
    \/ DetectorSearchFailedStep
    \/ DetectorRevalidatedStep
    \/ RevalidationFailedStep

SpecDetector == Init /\ [][NextDetector]_vars

----------------------------------------------------------------------------
(* SpecConfig: the commands /threshold, /age, /pause and /resume arriving  *)
(* at any moment while the service discovers and monitors one token        *)

\* a pair created ninety minutes before the service starts: old enough under
\* a minimum age of one hour, too young under two hours
Mid30(a) == [Spike30(a) EXCEPT !.pairCreatedAt = StartTime - 90 * MinuteMs]

AgeHours == {MIN_TOKEN_AGE_HOURS, 2}

\* three records of the token of the batch, a 30% rise in each
ConfigResponses(batch) ==
    {<<p, p, p>> : p \in {q \in {Mid30("A")} : Contains(batch, q.address)}}

\* /threshold 25 on, /threshold 25 off
ConfigThresholdStep ==
    \E enabled \in BOOLEAN :
        alertThreshold25 # enabled /\ SetAlertThreshold("25", enabled)

AgeStep ==
    \E hours \in AgeHours :
        hours # minTokenAgeHours /\ SetMinTokenAge(hours)

ConfigPumpfunStep ==
    \E d \in 1..Len(discoveries) : PumpfunSearched(d, <<Mid30("A")>>)

ConfigBonkStep == \E d \in 1..Len(discoveries) : BonkSearched(d, <<>>)

ConfigRevalidatedStep ==
    \E d \in 1..Len(discoveries) : Revalidated(d, <<Mid30("A")>>)

ConfigMonitorTimerStep == Len(runs) < MaxConfigRuns /\ MonitorTimerFire

ConfigTickStep == ticks < MaxConfigTicks /\ Tick(pollingIntervalMs)

ConfigBatchFetchedStep ==
    \E r \in 1..Len(runs) : \E pairs \in ConfigResponses(Batch(runs[r])) :
        BatchFetched(r, pairs)

NextConfig ==
    \/ StartService
    \/ ConfigPumpfunStep
    \/ ConfigBonkStep
    \/ DiscoverySettledStep
    \/ ConfigRevalidatedStep
    \/ ConfigTickStep
    \/ ConfigMonitorTimerStep
    \/ ConfigBatchFetchedStep
    \/ DelayElapsedStep
    \/ SendNextStep
    \/ ConfigThresholdStep
    \/ AgeStep
    \/ Pause
    \/ Resume

SpecConfig == Init /\ [][NextConfig]_vars

----------------------------------------------------------------------------
(* SpecLimiter: the service's RateLimiter(250, 60 s) filled to and above    *)
(* its capacity, and callers of waitForAvailability.  A caller is a monitor *)
(* run at its first batch.  Requests are recorded only while nobody waits; *)
(* the clock is read after the first request and again near capacity, the  *)
(* burst in between is recorded at one reading.  A delay ends when it is   *)
(* due.                                                                     *)

LimiterTickMs == 1000

Waiting == {r \in 1..Len(runs) : runs[r].pc = "limit"}

\* recordRequest() is called
RecordRequest ==
    /\ requests' = recordRequest(requests, now)
    /\ UNCHANGED <<phase, isRunning, trackedTokens, isPaused, timers, runs,
                   discoveries, delivered, calls, retry>>
    /\ UNCHANGED engineVars

\* setTimeout of the delay of run r fires: the clock stands at wakeAt
LimiterDelayDue(r) ==
    /\ r \in 1..Len(runs) /\ runs[r].pc = "limit"
    /\ now < runs[r].wakeAt
    /\ now' = runs[r].wakeAt
    /\ UNCHANGED <<tokens, alertThreshold25, alertThreshold50, alertLog,
                   lastCall, evals, ticks, minTokenAgeHours, lastFetch>>
    /\ UNCHANGED schedVars

\* a monitor run over one tracked token reaches waitForAvailability
LimiterCall ==
    /\ Begin(StartBatch([DoneRun EXCEPT !.tracked = <<"A">>], requests, now))
    /\ UNCHANGED <<phase, isRunning, trackedTokens, isPaused, timers,
                   discoveries, delivered, retry>>
    /\ UNCHANGED engineVars

LimiterRecordStep ==
    /\ Waiting = {}
    /\ Len(requests) < MaxLimiterRequests
    /\ RecordRequest

LimiterTickStep ==
    /\ Waiting = {}
    /\ ticks < MaxLimiterTicks
    /\ Len(requests) = 1 \/ Len(requests) >= rateLimitMaxRequests - 1
    /\ Tick(LimiterTickMs)

LimiterCallStep ==
    /\ Len(runs) < MaxLimiterCallers
    /\ Len(requests) >= rateLimitMaxRequests - 1
    /\ LimiterCall

LimiterDelayDueStep == \E r \in Waiting : LimiterDelayDue(r)

LimiterWaitElapsedStep ==
    \E r \in Waiting : now >= runs[r].wakeAt /\ LimiterWaitElapsed(r)

NextLimiter ==
    \/ LimiterRecordStep
    \/ LimiterTickStep
    \/ LimiterCallStep
    \/ LimiterDelayDueStep
    \/ LimiterWaitElapsedStep

SpecLimiter == Init /\ [][NextLimiter]_vars

\* a timer that is due fires and the continuation of the await runs
SpecLimiterFair ==
    /\ SpecLimiter
    /\ WF_vars(LimiterDelayDueStep)
    /\ WF_vars(LimiterWaitElapsedStep)

----------------------------------------------------------------------------
(* SpecRemoval: a tracked token with snapshots in the store is removed     *)
(* from the Universe, by removeToken or by a revalidation that finds it    *)
(* not eligible                                                             *)

NextRemoval ==
    \/ StartService
    \/ RemoveTokenStep
    \/ UniverseTickStep
    \/ DiscoveryTimerStep
    \/ PumpfunFailedStep
    \/ PumpfunSearchedStep
    \/ DiscoverySettledStep
    \/ BonkFailedStep
    \/ BonkSearchedStep
    \/ RevalidationFailedStep
    \/ RevalidatedStep
    \/ BatchFetchedStep
    \/ DelayElapsedStep
    \/ SendNextStep

SpecRemoval == Init /\ [][NextRemoval]_vars

----------------------------------------------------------------------------
(* SpecRate: a provider outage under a large universe.  The universe has   *)
(* MaxRateBatches batches; from the first monitor run on every bulk        *)
(* request fails at once.  Time is counted in seconds and no step that is  *)
(* due is put off: a pending request fails before a backoff that is due    *)
(* resumes, that before the monitor timer fires, and that before the clock *)
(* advances; among several runs the oldest one moves first.                 *)

RateTickMs == 1000

RateToken(i) == "T" \o ToString(i)

\* the search result that lists every token of the universe
RateSearchResult ==
    [i \in 1..(MaxRateBatches * batchSize) |-> Spike30(RateToken(i))]

Fetching == {r \in 1..Len(runs) : runs[r].pc = "fetch"}

BackoffDue ==
    {r \in 1..Len(runs) : runs[r].pc = "backoff" /\ now >= runs[r].rt.wakeAt}

MonitorTimerDue == timers.monitor # 0 /\ now >= timers.monitor

Oldest(S) == CHOOSE r \in S : \A q \in S : r <= q

RateSearchedStep ==
    \E d \in 1..Len(discoveries) : PumpfunSearched(d, RateSearchResult)

RateAttemptFailedStep ==
    Fetching # {} /\ AttemptFailed(Oldest(Fetching), "network")

RateBatchFailedStep ==
    Fetching # {} /\ BatchFailed(Oldest(Fetching), "network")

RateBackoffElapsedStep ==
    /\ Fetching = {} /\ BackoffDue # {}
    /\ BackoffElapsed(Oldest(BackoffDue))

RateMonitorTimerStep ==
    /\ Fetching = {} /\ BackoffDue = {}
    /\ Len(runs) < MaxRateRuns
    /\ MonitorTimerFire

RateTickStep ==
    /\ phase = "running"
    /\ Fetching = {} /\ BackoffDue = {}
    /\ ~(MonitorTimerDue /\ Len(runs) < MaxRateRuns)
    /\ ticks < MaxRateTicks
    /\ Tick(RateTickMs)

NextRate ==
    \/ StartService
    \/ RateSearchedStep
    \/ BonkFailedStep
    \/ RevalidationFailedStep
    \/ RateAttemptFailedStep
    \/ RateBatchFailedStep
    \/ RateBackoffElapsedStep
    \/ RateMonitorTimerStep
    \/ RateTickStep

SpecRate == Init /\ [][NextRate]_vars

----------------------------------------------------------------------------
(* Properties *)

Called == lastCall.n > 0

\* the record of the latest call, as the claims describe it
VerifiedSource(pair) == IncludesPump(pair.dexId) \/ IncludesBonk(pair.dexId)

EligibleRecord(pair) ==
    /\ pair.fdv > 0 /\ pair.fdv < maxMarketCap
    /\ parseFloatOr0(pair.priceUsd) > 0
    /\ pair.liquidityUsd >= minLiquidityUsd

Armed(stamps, tier, t) == stamps[tier] = 0 \/ t - stamps[tier] >= alertCooldownMs

\* C2: the dormancy decision of checkForSpike is the classifier's verdict on
\* the snapshots stored just before the incoming record, so it does not
\* depend on the record's own price or volume_5m.
C2_DormancyOverStoredWindow ==
    lastCall.exit \in {"dormant", "tier", "alert"} /\ Called
        => (lastCall.exit # "dormant") = lastCall.dormantBefore

\* C3 (Scenario A): at least 3 stored snapshots in the baseline window that
\* satisfy the dormancy conditions, then a verified, eligible record with
\* 25 <= priceChange_5m < 50 while tier25 is enabled and armed: the call
\* emits exactly one alert, of tier25.
C3_ScenarioA ==
    ( /\ Called
      /\ lastCall.windowBefore >= 3 /\ lastCall.dormantBefore
      /\ VerifiedSource(lastCall.pair) /\ EligibleRecord(lastCall.pair)
      /\ lastCall.pair.priceChangeM5 >= 25 /\ lastCall.pair.priceChangeM5 < 50
      /\ lastCall.t25 /\ Armed(lastCall.prev, "tier25", lastCall.at) )
    => /\ lastCall.tier = "tier25"
       /\ alertLog # <<>>
       /\ alertLog[Len(alertLog)].timestamp = lastCall.at
       /\ alertLog[Len(alertLog)].tier = "tier25"

\* C5: every stored state has source pumpfun or bonk; a record whose source
\* hint resolves to no source changes nothing in the store (no state created
\* or updated, no cooldown stamped) and produces no alert.
C5_UnverifiedSourceIgnored ==
    [][ /\ \A a \in DOMAIN tokens' : tokens'[a].source \in {"pumpfun", "bonk"}
        /\ (evals' # evals /\ ~VerifiedSource(lastCall'.pair))
              => (tokens' = tokens /\ alertLog' = alertLog) ]_vars

\* a record with no source arrives with a spike while the stored window is dormant
C5_Witness ==
    /\ Called /\ ~VerifiedSource(lastCall.pair)
    /\ lastCall.pair.priceChangeM5 >= 25
    /\ lastCall.windowBefore >= 3 /\ lastCall.dormantBefore
    /\ lastCall.tier = "none"

RefTier(t25, t50, priceChange5m) ==
    IF t50 /\ priceChange5m >= 50 THEN "tier50"
    ELSE IF t25 /\ priceChange5m >= 25 /\ priceChange5m < 50 THEN "tier25"
    ELSE "none"

\* C7: the tier of an emitted alert is the reference tier, and a call that
\* passes the gates and the dormancy check emits the reference tier when that
\* tier is armed (50 selects tier50, 62 never tier25, below 25 nothing).
C7_TierSelection ==
    Called =>
      LET ref == RefTier(lastCall.t25, lastCall.t50,
                         lastCall.pair.priceChangeM5)
      IN /\ lastCall.tier # "none" => lastCall.tier = ref
         /\ ( /\ lastCall.exit \in {"tier", "alert"}
              /\ ref # "none"
              /\ Armed(lastCall.prev, ref, lastCall.at) )
            => lastCall.tier = ref

\* priceChange_5m = 50 with both tiers enabled emits tier50
C7_Witness ==
    /\ Called /\ lastCall.pair.priceChangeM5 = 50
    /\ lastCall.t25 /\ lastCall.t50
    /\ lastCall.tier = "tier50"

SameAlertKey(a, b) == a.tokenAddress = b.tokenAddress /\ a.tier = b.tier

\* C1: two alerts for the same identity and tier are at least alertCooldownMs
\* apart, whatever qualifying evaluations happen in between.
C1_CooldownPerTier ==
    \A i, j \in 1..Len(alertLog) :
        (i < j /\ SameAlertKey(alertLog[i], alertLog[j]))
            => alertLog[j].timestamp - alertLog[i].timestamp >= alertCooldownMs

\* two alerts of one tier, with a qualifying record of that tier evaluated
\* in between and suppressed
C1_Witness ==
    \E i, j \in 1..Len(alertLog) :
        /\ i < j /\ SameAlertKey(alertLog[i], alertLog[j])
        /\ alertLog[i].tokenAddress \in DOMAIN tokens
        /\ \E k \in 1..Len(tokens[alertLog[i].tokenAddress].snapshots) :
              LET s == tokens[alertLog[i].tokenAddress].snapshots[k]
              IN /\ s.timestamp > alertLog[i].timestamp
                 /\ s.timestamp < alertLog[j].timestamp
                 /\ s.priceChange5m = alertLog[i].priceChange5m

\* C8: a call that passes the gates and the dormancy check, whose tier was
\* stamped before, emits that tier exactly when now - lastAlertAt[tier] >=
\* cooldown; nothing but the evaluation itself re-arms the pair.
C8_LazyRearm ==
    LET ref == RefTier(lastCall.t25, lastCall.t50, lastCall.pair.priceChangeM5)
    IN ( /\ Called /\ lastCall.exit \in {"tier", "alert"}
         /\ ref # "none" /\ lastCall.prev[ref] # 0 )
       => ( lastCall.tier = ref
              <=> lastCall.at - lastCall.prev[ref] >= alertCooldownMs )

\* Scenario C: alert, the same record 2 minutes later suppressed, the same
\* record 31 minutes after the alert emitted again
C8_Witness ==
    /\ Called /\ lastCall.tier = "tier25" /\ lastCall.prev.tier25 # 0
    /\ lastCall.at - lastCall.prev.tier25 = 31 * MinuteMs
    /\ lastCall.pair.address \in DOMAIN tokens
    /\ \E k \in 1..Len(tokens[lastCall.pair.address].snapshots) :
          LET s == tokens[lastCall.pair.address].snapshots[k]
          IN /\ s.timestamp = lastCall.prev.tier25 + 2 * MinuteMs
             /\ s.priceChange5m = lastCall.pair.priceChangeM5
    /\ \A i \in 1..Len(alertLog) :
          alertLog[i].timestamp # lastCall.prev.tier25 + 2 * MinuteMs

\* C10: a snapshot sequence never holds more than C = 144 snapshots, and a
\* record arriving at full capacity removes the head and keeps the others
\* in order.
C10_BoundedFifo ==
    [][ \A a \in DOMAIN tokens' :
          /\ Len(tokens'[a].snapshots) <= maxSnapshotsPerToken
          /\ ( /\ evals' # evals /\ a = lastCall'.pair.address
               /\ a \in DOMAIN tokens
               /\ Len(tokens[a].snapshots) = maxSnapshotsPerToken )
             => /\ Len(tokens'[a].snapshots) = maxSnapshotsPerToken
                /\ SubSeq(tokens'[a].snapshots, 1, maxSnapshotsPerToken - 1)
                     = Tail(tokens[a].snapshots)
                /\ tokens'[a].snapshots[maxSnapshotsPerToken].timestamp
                     = lastCall'.at ]_vars

\* a full sequence whose first snapshot has been evicted
C10_Witness ==
    \E a \in DOMAIN tokens :
        /\ Len(tokens[a].snapshots) = maxSnapshotsPerToken
        /\ tokens[a].snapshots[1].timestamp > tokens[a].firstSeen

\* C4: at no time are two runs of the monitor cycle in flight, nor two runs
\* of the discovery cycle.
C4_NoOverlappingRuns ==
    /\ Cardinality(InFlight(runs)) <= 1
    /\ Cardinality(InFlight(discoveries)) <= 1

\* C9: an alert is emitted in the step that finds its tier out of cooldown
\* and that step leaves lastAlertTimestamp[tier] = now; an alert is handed
\* to the bot only in a later step, when the stamp is already written.
C9_StampBeforeDelivery ==
    [][ /\ \A i \in (Len(alertLog) + 1)..Len(alertLog') :
              LET a == alertLog'[i]
              IN /\ a.timestamp = now
                 /\ ~isInCooldown(tokens, a.tokenAddress, a.tier,
                                 alertCooldownMs, now)
                 /\ a.tokenAddress \in DOMAIN tokens'
                 /\ tokens'[a.tokenAddress].lastAlertTimestamp[a.tier]
                      = a.timestamp
        /\ \A i \in (Len(delivered) + 1)..Len(delivered') :
              \E j \in 1..Len(alertLog) : alertLog[j] = delivered'[i] ]_vars

\* an alert of a monitor run has been handed to the bot
C9_Witness ==
    \E i \in 1..Len(delivered) :
        /\ delivered[i].tokenAddress \in DOMAIN tokens
        /\ tokens[delivered[i].tokenAddress]
               .lastAlertTimestamp[delivered[i].tier] = delivered[i].timestamp

\* C12: for every token, two alerts of any tier are at least alertCooldownMs
\* apart (no tier25 alert followed by a tier50 alert inside the window).
C12_OneAlertPerToken ==
    \A i, j \in 1..Len(alertLog) :
        (i < j /\ alertLog[i].tokenAddress = alertLog[j].tokenAddress)
            => alertLog[j].timestamp - alertLog[i].timestamp >= alertCooldownMs

\* C18: a cleanup run deletes exactly the states whose lastSeenActive is
\* older than now - maxAgeHours and leaves every other state as it was.
C18_CleanupFrame ==
    [][ (evals' = evals /\ now' = now)
        => LET cutoffTime == now - cleanupMaxAgeHours * HourMs
           IN /\ DOMAIN tokens'
                   = {a \in DOMAIN tokens :
                        ~(tokens[a].lastSeenActive < cutoffTime)}
              /\ \A a \in DOMAIN tokens' : tokens'[a] = tokens[a] ]_vars

RECURSIVE StoredSnapshots(_)
StoredSnapshots(S) ==
    IF S = {} THEN 0
    ELSE LET a == CHOOSE x \in S : TRUE
         IN Len(tokens[a].snapshots) + StoredSnapshots(S \ {a})

\* a cleanup has deleted one token and kept another whose lastSeenActive is
\* exactly at the horizon
C18_Witness ==
    /\ StoredSnapshots(DOMAIN tokens) < evals
    /\ \E a \in DOMAIN tokens :
          tokens[a].lastSeenActive = now - cleanupMaxAgeHours * HourMs

\* C11: every alert whose cooldown checkForSpike stamped is handed to the
\* alert sink: once no monitor run is in flight, each stamped alert has been
\* delivered
C11_StampedAlertsDelivered ==
    InFlight(runs) = {}
        => \A i \in 1..Len(alertLog) :
               \E j \in 1..Len(delivered) : delivered[j] = alertLog[i]

\* C20: once stop() has returned no timer starts a run: a timer that is set
\* after stop() never fires
C20_NoTimerRunAfterStop ==
    [][ (~isRunning /\ phase # "constructed")
            => (timers' = timers \/ timers = NoTimers) ]_vars

\* the calls of the failure hook so far are those of the failed invocations,
\* in order, each with its attempt number
HookedPerFailure(rt) ==
    /\ Len(rt.onError) = (IF rt.pc \in {"call", "returned"}
                          THEN rt.invocations - 1 ELSE rt.invocations)
    /\ \A i \in 1..Len(rt.onError) : rt.onError[i].attempt = i

\* C16: retry invokes the operation at most maxRetries times, returns the
\* value of the first success without a further invocation, propagates the
\* failure of the last invocation when all maxRetries invocations fail, and
\* calls the failure hook once per failed invocation with its attempt number
C16_RetryAttempts ==
    /\ [](retry.pc # "idle"
            => /\ retry.invocations <= retry.maxRetries
               /\ HookedPerFailure(retry)
               /\ retry.pc = "returned" => retry.result = "value"
               /\ retry.pc = "thrown"
                    => /\ retry.invocations = retry.maxRetries
                       /\ retry.result
                            = retry.onError[retry.maxRetries].error)
    /\ [][ retry.pc \in {"returned", "thrown"}
               => (retry' = retry \/ retry' = retryStart(retry'.maxRetries,
                                                        retry'.initialDelayMs)) ]_vars

\* all three invocations failed, with errors of different kinds
C16_Witness ==
    /\ retry.pc = "thrown" /\ retry.maxRetries = 3
    /\ retry.onError[1].error # retry.onError[3].error

\* C17: the suspension after failed attempt k < maxRetries is
\* initialDelayMs * 2^(k-1), there is none after the last failed attempt,
\* and neither depends on the kind of the error
C17_BackoffSchedule ==
    /\ [](retry.pc # "idle"
            => /\ \A k \in 1..Len(retry.delays) :
                     retry.delays[k] = retry.initialDelayMs * 2^(k - 1)
               /\ Len(retry.delays)
                    = (IF Len(retry.onError) < retry.maxRetries
                       THEN Len(retry.onError) ELSE retry.maxRetries - 1)
               /\ retry.pc = "thrown"
                    => Len(retry.delays) = retry.maxRetries - 1)
    /\ [][ /\ (retry.pc = "call" /\ retry'.pc = "backoff")
                => retry'.wakeAt
                     = now + retry.initialDelayMs * 2^(retry.attempt - 1)
           /\ (retry.pc = "backoff" /\ retry'.pc = "call")
                => now >= retry.wakeAt ]_vars

\* the third invocation is under way after two suspensions that followed
\* errors of different kinds
C17_Witness ==
    /\ retry.pc = "call" /\ retry.attempt = 3 /\ Len(retry.delays) = 2
    /\ retry.onError[1].error # retry.onError[2].error

\* the fetch of run r fails at its last attempt in this step
FailsLastAttempt(r) ==
    /\ runs[r].pc = "fetch"
    /\ runs[r].rt.attempt = runs[r].rt.maxRetries
    /\ runs'[r] # runs[r]
    /\ runs'[r].pc # "delay"

\* C15: a batch whose fetch fails after all retries is skipped: nothing of it
\* is evaluated, the next batch of the run is fetched at once, and after the
\* last batch the alerts of the successful batches are handed to the bot; a
\* finished run leaves no collected alert undelivered
C15_FailedBatchSkipped ==
    /\ [][ \A r \in 1..Len(runs) :
               FailsLastAttempt(r)
                   => /\ tokens' = tokens /\ evals' = evals
                      /\ IF runs[r].i + batchSize < Len(runs[r].tracked)
                         THEN /\ runs'[r].pc = "fetch"
                              /\ runs'[r].i = runs[r].i + batchSize
                              /\ runs'[r].allAlerts = runs[r].allAlerts
                              /\ calls' = Append(calls, now)
                         ELSE IF runs[r].allAlerts = <<>> \/ isPaused
                         THEN runs'[r].pc = "done"
                         ELSE /\ runs'[r].pc = "send"
                              /\ delivered'
                                   = Append(delivered, runs[r].allAlerts[1])
         ]_vars
    /\ []((InFlight(runs) = {} /\ ~isPaused)
            => \A i \in 1..Len(alertLog) :
                   \E j \in 1..Len(delivered) : delivered[j] = alertLog[i])

\* the first batch failed at all attempts and was not evaluated, the second
\* batch was fetched and its alert was delivered
C15_Witness ==
    /\ FirstToken \notin DOMAIN tokens
    /\ Len(calls) = monitorMaxRetries + 1
    /\ delivered # <<>> /\ delivered[1].tokenAddress = LastToken

\* the members of a sequence
Members(seq) == {seq[i] : i \in 1..Len(seq)}

NoDuplicates(seq) == \A i, j \in 1..Len(seq) : seq[i] = seq[j] => i = j

C19_RemovalKeepsState ==
    [][ (\E a \in Members(trackedTokens) : a \notin Members(trackedTokens'))
            => tokens' = tokens ]_vars

\* an identity that is no longer tracked still has its snapshots
C19_Witness ==
    \E a \in DOMAIN tokens :
        /\ ~Contains(trackedTokens, a)
        /\ tokens[a].snapshots # <<>>

\* the calls issued to the provider in the window that ends at the present
CallsInWindow ==
    Cardinality({i \in 1..Len(calls) : now - calls[i] < rateLimitWindowMs})

\* C13: in the window of rateLimitWindowMs that ends at any moment, monitor
\* runs have issued at most rateLimitMaxRequests bulk requests, failed and
\* retried attempts included
C13_RateLimitRespected == CallsInWindow <= rateLimitMaxRequests

\* values of the two thresholds isDormant is asked with
VolatilityThresholds == {1, dormantVolatilityThreshold, 1000}

VolumeThresholds == {1, dormantVolumeThreshold, 1000000}

\* an address no record was ever stored for
UnknownToken == "Z"

\* the snapshots of token a stored in T that are at most minutes old at t
InWindowCount(T, a, minutes, t) ==
    IF a \notin DOMAIN T THEN 0
    ELSE Cardinality({i \in 1..Len(T[a].snapshots) :
                         T[a].snapshots[i].timestamp >= t - minutes * MinuteMs})

\* C22: isDormant is false whenever fewer than 3 snapshots of the token lie
\* in the baseline window (unknown token, or older snapshots aged out of the
\* window), for every value of the two thresholds
C22_FewSnapshotsNotDormant ==
    \A a \in Addresses \cup {UnknownToken} :
        \A vt \in VolatilityThresholds : \A volT \in VolumeThresholds :
            InWindowCount(tokens, a, baselinePeriodMinutes, now) < 3
                => ~isDormant(tokens, a, vt, volT, baselinePeriodMinutes, now)

\* a token whose three stored snapshots are dormant as a whole, but only one
\* or two of them are still inside the baseline window
C22_Witness ==
    \E a \in DOMAIN tokens :
        /\ Len(tokens[a].snapshots) >= 3
        /\ DormantWindow(tokens[a].snapshots, dormantVolatilityThreshold,
                         dormantVolumeThreshold)
        /\ InWindowCount(tokens, a, baselinePeriodMinutes, now) \in {1, 2}

\* |last - first| / first * 100 < threshold, as it is written: with first = 0
\* the quotient is no number and the comparison does not hold
DriftBelow(firstPrice, lastPrice, threshold) ==
    /\ firstPrice > 0
    /\ Abs(lastPrice - firstPrice) * 100 < threshold * firstPrice

\* (curr - prev) / prev * 100 <= 10, as it is written
StepWithin10(prevPrice, currPrice) ==
    /\ prevPrice > 0
    /\ (currPrice - prevPrice) * 100 <= 10 * prevPrice

\* the three conditions of the dormancy classifier on a window
ThreeConditions(w, volatilityThreshold, volumeThreshold) ==
    /\ SumVolume(w) < volumeThreshold
    /\ DriftBelow(w[1].price, w[Len(w)].price, volatilityThreshold)
    /\ \A i \in 2..Len(w) : StepWithin10(w[i - 1].price, w[i].price)

\* C23: for a window of at least 3 snapshots isDormant is true exactly when
\* the summed volume_5m is below volumeThreshold, the relative drift from the
\* first to the last price is below volatilityThreshold, and no consecutive
\* step is above +10%
C23_DormantExactlyThreeConditions ==
    \A a \in DOMAIN tokens :
        \A vt \in VolatilityThresholds : \A volT \in VolumeThresholds :
            LET w == getSnapshotsInWindow(tokens, a, baselinePeriodMinutes, now)
            IN Len(w) >= 3
                 => (isDormant(tokens, a, vt, volT, baselinePeriodMinutes, now)
                       <=> ThreeConditions(w, vt, volT))

----------------------------------------------------------------------------
(* getSnapshotsInWindow *)

WindowMinutes == {0, 31, baselinePeriodMinutes, 62}

\* C27: for every token address (tracked or unknown) and window length,
\* getSnapshotsInWindow returns exactly the stored snapshots whose timestamp
\* is >= now - minutes, in stored order, and they form a contiguous suffix of
\* the stored sequence (every snapshot before it is older than the cutoff);
\* for an unknown address it returns the empty sequence
C27_WindowIsSuffix ==
    \A a \in Addresses \cup {UnknownToken} :
        \A m \in WindowMinutes :
            LET w == getSnapshotsInWindow(tokens, a, m, now)
                cutoffTime == now - m * MinuteMs
            IN IF a \notin DOMAIN tokens THEN w = <<>>
               ELSE LET s == tokens[a].snapshots
                        k == Len(s) - Len(w)
                    IN /\ k >= 0
                       /\ w = SubSeq(s, k + 1, Len(s))
                       /\ \A i \in 1..k : s[i].timestamp < cutoffTime
                       /\ \A i \in (k + 1)..Len(s) :
                              s[i].timestamp >= cutoffTime

\* a window that is a proper, nonempty suffix and begins with a snapshot
\* taken exactly at the cutoff
C27_Witness ==
    \E a \in DOMAIN tokens :
        LET s == tokens[a].snapshots
            w == getSnapshotsInWindow(tokens, a, 31, now)
        IN /\ Len(w) >= 2
           /\ Len(w) < Len(s)
           /\ w[1].timestamp = now - 31 * MinuteMs

----------------------------------------------------------------------------
(* lastAlertTimestamp *)

\* C29: in every step, for every token whose state exists before and after
\* the step and for every tier, lastAlertTimestamp[tier] does not decrease
\* and, once set (non-zero), is not unset: no monitor, discovery,
\* revalidation or cleanup step lowers it while the state exists
C29_StampsOnlyForward ==
    [][\A a \in DOMAIN tokens \cap DOMAIN tokens' :
          \A tier \in Tiers :
              tokens'[a].lastAlertTimestamp[tier]
                  >= tokens[a].lastAlertTimestamp[tier]]_vars

\* a token alerted twice on one tier, the stamp standing at the later alert,
\* after discovery, revalidation and cleanup have run
C29_Witness ==
    \E a \in DOMAIN tokens :
        \E i, j \in 1..Len(alertLog) :
            /\ alertLog[i].tokenAddress = a /\ alertLog[j].tokenAddress = a
            /\ alertLog[i].tier = alertLog[j].tier
            /\ alertLog[i].timestamp < alertLog[j].timestamp
            /\ tokens[a].lastAlertTimestamp[alertLog[j].tier]
                   = alertLog[j].timestamp
            /\ timers.cleanup > StartTime + cleanupIntervalMs

----------------------------------------------------------------------------
(* order of the snapshots *)

\* C30: in every reachable state the snapshots of each token are
\* non-decreasing by timestamp, also when several monitor runs in flight
\* append to the same token in any order of their fetches
C30_SnapshotsOrdered ==
    \A a \in DOMAIN tokens :
        \A i \in 1..(Len(tokens[a].snapshots) - 1) :
            tokens[a].snapshots[i].timestamp
                <= tokens[a].snapshots[i + 1].timestamp

\* a token with snapshots taken at two instants, the later ones appended by
\* a monitor run that started after a run whose fetch is still pending
C30_Witness ==
    \E a \in DOMAIN tokens :
        LET s == tokens[a].snapshots
        IN /\ Len(s) >= 2
           /\ s[1].timestamp < s[Len(s)].timestamp
           /\ \E r1, r2 \in 1..Len(runs) :
                 /\ r1 < r2
                 /\ runs[r1].pc = "fetch"
                 /\ runs[r2].pc = "delay"

----------------------------------------------------------------------------
(* the eligibility predicate and updateTokenEligibility *)

\* the eligibility predicate as it is stated: source verified, market cap
\* above 0 and below the ceiling, liquidity at least the floor, price above
\* 0, and age at least the minimum when the creation time is known
EligibilityPredicate(pair, t) ==
    /\ getTokenSource(pair) \in {"pumpfun", "bonk"}
    /\ 0 < pair.fdv /\ pair.fdv < maxMarketCap
    /\ pair.liquidityUsd >= minLiquidityUsd
    /\ parseFloatOr0(pair.priceUsd) > 0
    /\ (pair.pairCreatedAt # 0
        => t - pair.pairCreatedAt >= minTokenAgeHours * HourMs)

PassesEligibility(pairs, t) ==
    \E i \in 1..Len(pairs) : EligibilityPredicate(pairs[i], t)

\* C24: a step of updateTokenEligibility(a) inside the revalidation loop
\* removes the tracked token a from the Universe exactly when no pair of the
\* re-fetched data passes the eligibility predicate and leaves every other
\* token tracked; when the re-fetch fails the Universe is unchanged; in both
\* cases the token store is untouched and the loop goes on to the next
\* token of its copy (or the discovery run ends after the last one)
C24_RevalidationRemovesExactlyIneligible ==
    [][\A d \in 1..Len(discoveries) :
          (discoveries[d].pc = "reval" /\ discoveries'[d] # discoveries[d])
          => LET a == discoveries[d].existing[discoveries[d].j]
                 ok == PassesEligibility(lastFetch'.pairs, now)
             IN /\ lastFetch'.op = "reval" /\ lastFetch'.token = a
                /\ lastFetch'.failed => trackedTokens' = trackedTokens
                /\ (~lastFetch'.failed /\ Contains(trackedTokens, a))
                   => /\ ok => trackedTokens' = trackedTokens
                      /\ ~ok => /\ ~Contains(trackedTokens', a)
                                /\ trackedTokens'
                                       = SetDelete(trackedTokens, a)
                /\ tokens' = tokens
                /\ IF discoveries[d].j < Len(discoveries[d].existing)
                   THEN discoveries'[d] =
                            [discoveries[d] EXCEPT !.j = @ + 1]
                   ELSE discoveries'[d].pc = "done"]_vars

----------------------------------------------------------------------------
(* discoverTokens *)

\* the awaits of discoverTokens at which a search is pending
SearchAwaits == {"pumpfun", "bonk"} \cup Range(detector_Terms)

\* C25: in every step in which a launchpad search of discoverTokens
\* resolves, each address that the step adds to the Universe is the address
\* of a pair of that search result which, at the time of the step, passes
\* the whole eligibility predicate (verified source, 0 < market cap <
\* ceiling, liquidity >= floor, price > 0, age >= minimum unless the
\* creation time is unknown)
C25_DiscoveredAreEligible ==
    [][\A d \in 1..Len(discoveries) :
          (discoveries[d].pc \in SearchAwaits
           /\ discoveries'[d] # discoveries[d])
          => /\ lastFetch'.op = discoveries[d].pc
             /\ \A a \in Range(trackedTokens') \ Range(trackedTokens) :
                   \E i \in 1..Len(lastFetch'.pairs) :
                       /\ lastFetch'.pairs[i].address = a
                       /\ EligibilityPredicate(lastFetch'.pairs[i], now)]_vars

----------------------------------------------------------------------------
(* failures inside the discovery and cleanup runs *)

\* while the service runs the three timers are armed, the monitor timer no
\* later than one polling interval ahead; while it starts, the initial
\* discovery is in flight
TimersArmed ==
    /\ phase = "running"
       => /\ timers.monitor # 0 /\ timers.discovery # 0 /\ timers.cleanup # 0
          /\ timers.monitor <= now + pollingIntervalMs
    /\ phase = "starting" => InFlight(discoveries) # {}

\* a step in which a provider call of discovery run d fails
FailureIn(d) ==
    /\ discoveries'[d] # discoveries[d]
    /\ lastFetch'.failed

\* a failure step leaves every monitor run and every other discovery run as
\* it is and cancels no timer: the timers are unchanged, or the step ends
\* the initial discovery and start() arms all three; no run is removed
FailureContained ==
    \A d \in 1..Len(discoveries) :
        FailureIn(d)
        => /\ \A r \in 1..Len(runs) : runs'[r] = runs[r]
           /\ \A e \in 1..Len(discoveries) : e # d =>
                  discoveries'[e] = discoveries[e]
           /\ \/ timers' = timers
              \/ /\ phase = "starting" /\ phase' = "running"
                 /\ timers' = [monitor |-> now + pollingIntervalMs,
                               discovery |-> now + discoveryIntervalMs,
                               cleanup |-> now + cleanupIntervalMs]
           /\ isRunning' = isRunning

\* a cleanup run re-arms its own timer and touches no other timer or run
CleanupContained ==
    (timers'.cleanup # timers.cleanup /\ phase = "running")
    => /\ timers'.monitor = timers.monitor
       /\ timers'.discovery = timers.discovery
       /\ runs' = runs /\ discoveries' = discoveries

\* C26: a failed provider call inside a discovery run (also when every
\* search fails) and a cleanup run never cancel the monitor timer or any
\* other timer and never end another run; the monitor timer stays armed at
\* most pollingIntervalMs ahead for as long as the service runs, and the
\* initial discovery of start() always comes back so that the timers are set
C26_FailuresDoNotHaltMonitor ==
    /\ []TimersArmed
    /\ [][FailureContained /\ CleanupContained]_vars

\* both searches of a discovery have failed (the latest one the bonk search),
\* nothing is tracked, the service runs, and a monitor run has been started
\* by the timer afterwards, which is armed again one interval ahead
C26_Witness ==
    /\ lastFetch = Fetched("bonk", "", TRUE, <<>>)
    /\ trackedTokens = <<>>
    /\ phase = "running"
    /\ Len(runs) >= 2
    /\ timers.monitor = now + pollingIntervalMs
    /\ now > StartTime

----------------------------------------------------------------------------
(* configuration changed while the service runs *)

\* an alert appended by a step names a tier whose flag is on when the step
\* (and with it the checkForSpike call) is taken
NewAlertsEnabled ==
    \A i \in (Len(alertLog) + 1)..Len(alertLog') :
        /\ alertLog'[i].tier = "tier25" => alertThreshold25
        /\ alertLog'[i].tier = "tier50" => alertThreshold50

\* a search or a re-fetch that resolves is filtered with the minimum age the
\* configuration holds at that moment
FilterUsesCurrentAge ==
    \A d \in 1..Len(discoveries) :
        (discoveries'[d] # discoveries[d] /\ ~lastFetch'.failed)
        => /\ discoveries[d].pc \in {"pumpfun", "bonk"}
              => Range(trackedTokens') \ Range(trackedTokens)
                     = {lastFetch'.pairs[i].address :
                          i \in {k \in 1..Len(lastFetch'.pairs) :
                                   /\ EligibilityPredicate(
                                          lastFetch'.pairs[k], now)
                                   /\ getTokenSource(lastFetch'.pairs[k])
                                          = discoveries[d].pc
                                   /\ ~Contains(trackedTokens,
                                                lastFetch'.pairs[k].address)}}
           /\ (/\ discoveries[d].pc = "reval"
               /\ Contains(trackedTokens, lastFetch'.token))
              => (Contains(trackedTokens', lastFetch'.token)
                      <=> PassesEligibility(lastFetch'.pairs, now))

\* a monitor run that starts while paused ends at once: no request, no
\* evaluation, no change of the store; one that starts while not paused with
\* tokens tracked goes to its first batch
NewRunObeysPause ==
    Len(runs') = Len(runs) + 1
    => LET run == runs'[Len(runs')]
       IN /\ isPaused => /\ run = DoneRun
                         /\ calls' = calls
                         /\ evals' = evals
                         /\ tokens' = tokens
          /\ (~isPaused /\ trackedTokens' # <<>>)
             => /\ run.pc \in {"fetch", "limit"}
                /\ run.tracked = trackedTokens'
                /\ run.pc = "fetch" => calls' = Append(calls, now)

\* C21: configuration changes take effect at the next evaluation with no
\* restart: every alert a step emits is of a tier whose flag is on at that
\* step; every search and re-fetch is filtered with the minimum age the
\* configuration holds at that step; a monitor run started while paused
\* neither fetches nor evaluates, and one started while not paused (after a
\* resume too) runs the monitor cycle
C21_ConfigTakesEffectAtOnce ==
    [][NewAlertsEnabled /\ FilterUsesCurrentAge /\ NewRunObeysPause]_vars

\* the run start() began made no request although a token was tracked (the
\* service was paused); after /resume the run of the next timer tick has
\* sent its request, the only one so far
C21_Witness ==
    /\ ~isPaused
    /\ trackedTokens # <<>>
    /\ Len(runs) = 2
    /\ runs[1] = DoneRun
    /\ runs[2].pc = "fetch"
    /\ calls = <<StartTime + pollingIntervalMs>>
    /\ DOMAIN tokens = {}

----------------------------------------------------------------------------
(* waitForAvailability *)

\* a caller passes waitForAvailability (at once or after a wait) only in a
\* step at whose clock reading canMakeRequest() is true
ReturnsOnlyWhenAvailable ==
    [][\A r \in 1..Len(runs') :
          (runs'[r].pc = "fetch" /\ (r > Len(runs) \/ runs[r].pc # "fetch"))
          => canMakeRequest(PruneRequests(requests, rateLimitWindowMs, now),
                            rateLimitMaxRequests)]_vars

\* when the delay of a waiting caller ends, the oldest timestamp that was in
\* the window has left it; the caller returns then
ReturnsOnceOldestLeft ==
    [][\A r \in Waiting :
          runs'[r] # runs[r] => runs'[r].pc = "fetch"]_vars

\* a waiting caller returns in the end
EventuallyReturns ==
    \A r \in 1..(MaxLimiterCallers + 1) :
        (Len(runs) >= r /\ runs[r].pc = "limit")
            ~> (Len(runs) >= r /\ runs[r].pc = "fetch")

\* C28: waitForAvailability returns only at an instant at which
\* canMakeRequest() is true; with maxRequests >= 1 and no request recorded
\* while it waits it returns in the end, and at the latest when the oldest
\* timestamp of the window has left the window
C28_WaitForAvailability ==
    /\ ReturnsOnlyWhenAvailable
    /\ ReturnsOnceOldestLeft
    /\ EventuallyReturns

----------------------------------------------------------------------------
(* SpecSource: one token seen through pumpfun, bonk and other venues, and  *)
(* the cleanup past the idle horizon                                        *)

SourcePairs == {Spike30("A"), Spike62("A"), NoSource30("A")}

SourceEvalStep ==
    evals < MaxSourceEvals /\ \E p \in SourcePairs : CheckForSpike(p)

SourceTickStep ==
    ticks < MaxSourceTicks /\ Tick((cleanupMaxAgeHours + 1) * HourMs)

NextSource == SourceEvalStep \/ SourceTickStep \/ CleanupStep

SpecSource == Init /\ [][NextSource]_vars

----------------------------------------------------------------------------
(* C31: the source of an AssetState *)

Sources == {"null", "pumpfun", "bonk"}

\* updateTokenState(tokenAddress, Quiet, snapshot, source) at the clock
\* reading of the state
WithSource(T, tokenAddress, source) ==
    updateTokenState(T, tokenAddress, Quiet(tokenAddress),
                     MakeSnapshot(Quiet(tokenAddress), now), source, now)

\* two calls in a row for a token, with the sources first and second, leave
\* the source of the first call unless that was unset
SourceBackfilledOnlyWhenUnset ==
    \A a \in Addresses, first \in Sources, second \in Sources :
        LET T1 == WithSource(tokens, a, first)
            T2 == WithSource(T1, a, second)
        IN T2[a].source = IF T1[a].source = "null" THEN second
                          ELSE T1[a].source

\* no step changes the source a stored state holds
SourceKept ==
    \A a \in DOMAIN tokens \cap DOMAIN tokens' :
        tokens'[a].source # tokens[a].source => tokens[a].source = "null"

\* C31: once an AssetState holds a source, no later updateTokenState call
\* changes it; the source is written on an existing state only when it was
\* unset
C31_SourceImmutable ==
    []SourceBackfilledOnlyWhenUnset /\ [][SourceKept]_vars

\* a state created from a pumpfun record has just been updated from a bonk
\* record and still holds pumpfun
C31_Witness ==
    /\ "A" \in DOMAIN tokens
    /\ tokens["A"].source = "pumpfun"
    /\ Len(tokens["A"].snapshots) >= 2
    /\ lastCall.pair = Spike62("A")
    /\ lastCall.exit # "source"

----------------------------------------------------------------------------
(* SpecActive: one token polled with active and inactive records across    *)
(* the idle horizon of the cleanup                                         *)

\* no volume and a price change of exactly 1 percent
Still(a) == Pair(a, "pumpswap", "1.00", 40000, 0, 5000, 1)
\* no volume and a price change of -2 percent
Fall(a) == Pair(a, "pumpswap", "1.00", 40000, 0, 5000, -2)

ActivePairs == {Still("A"), Fall("A"), Drift("A"), Quiet("A")}

ActiveDelays == {HourMs, cleanupMaxAgeHours * HourMs}

ActiveEvalStep ==
    evals < MaxActiveEvals /\ \E p \in ActivePairs : CheckForSpike(p)

ActiveTickStep == ticks < MaxActiveTicks /\ \E d \in ActiveDelays : Tick(d)

NextActive == ActiveEvalStep \/ ActiveTickStep \/ CleanupStep

SpecActive == Init /\ [][NextActive]_vars

----------------------------------------------------------------------------
(* C32: lastSeenActive *)

ShowsActivity(p) == p.volumeM5 > 0 \/ p.priceChangeM5 > 1 \/ p.priceChangeM5 < -1

\* C32: a call of updateTokenState sets lastSeenActive to the timestamp of the
\* snapshot exactly when the snapshot has volume5m > 0 or a price change
\* above 1 percent in either direction; any other snapshot leaves the
\* lastSeenActive of an existing state as it was
C32_ActivityStamp ==
    [][evals' = evals + 1 /\ lastCall'.exit # "source" =>
         LET p == lastCall'.pair
             a == p.address
         IN /\ a \in DOMAIN tokens'
            /\ IF ShowsActivity(p)
               THEN tokens'[a].lastSeenActive = lastCall'.at
               ELSE a \in DOMAIN tokens =>
                        tokens'[a].lastSeenActive = tokens[a].lastSeenActive]_vars

\* an existing state has just taken an inactive snapshot a full idle horizon
\* after its last activity, and its lastSeenActive still is that of its
\* creation
C32_Witness ==
    /\ "A" \in DOMAIN tokens
    /\ lastCall.pair = Still("A")
    /\ lastCall.exit # "source"
    /\ lastCall.at = now
    /\ Len(tokens["A"].snapshots) >= 2
    /\ tokens["A"].lastSeenActive = StartTime
    /\ now >= StartTime + cleanupMaxAgeHours * HourMs

----------------------------------------------------------------------------
(* SpecMulti: checkMultiplePairs on responses of three records, some of    *)
(* them without baseToken                                                   *)

\* a record whose baseToken is missing
Malformed == Pair(NoBaseToken, "pumpswap", "1.02", 40000, 0, 5000, 30)

MultiPairs == {Malformed, Spike30("A"), Spike30("B")}

MultiResponses == [1..3 -> MultiPairs]

\* one call checkMultiplePairs(pairs), as monitorTokens makes it for a batch
CheckMultiplePairs(pairs) ==
    LET res == checkMultiplePairs(tokens, pairs, alertThreshold25,
                                  alertThreshold50, now)
    IN /\ tokens' = res.tokens
       /\ alertLog' = alertLog \o res.alerts
       /\ evals' = evals + Len(pairs)
       /\ lastCall' = Observe(res.prior, pairs[Len(pairs)], res.last,
                              evals + Len(pairs), alertThreshold25,
                              alertThreshold50, now)
       /\ lastFetch' = Fetched("batch", "", FALSE, pairs)
       /\ UNCHANGED <<now, alertThreshold25, alertThreshold50, ticks,
                      minTokenAgeHours>>
       /\ UNCHANGED schedVars

MultiCallStep ==
    /\ evals < 3 * MaxMultiCalls
    /\ \E pairs \in MultiResponses : CheckMultiplePairs(pairs)

NextMulti == MultiCallStep

SpecMulti == Init /\ [][NextMulti]_vars

----------------------------------------------------------------------------
(* C33: an error in one record of a batch *)

\* the records of a response whose evaluation raises no error
WithoutErrors(pairs) ==
    LET NoError(p) == ~Throws(p)
    IN SelectSeq(pairs, NoError)

\* the records of token a in a response that reach updateTokenState
RecordedFor(pairs, a) ==
    Cardinality({i \in 1..Len(pairs) :
                    pairs[i].address = a
                    /\ ~SourceRejected(getTokenSource(pairs[i]))})

SnapshotCount(T, a) == IF a \in DOMAIN T THEN Len(T[a].snapshots) ELSE 0

----------------------------------------------------------------------------
(* C34: alerts are delivered after the batches, in the order of detection *)

\* the for loop of monitorTokens of this run has reached its last batch
LastBatch(run) == run.i + batchSize >= Len(run.tracked)

\* the place of alert x in the sequence seq (0: not there)
PlaceIn(seq, x) ==
    IF Contains(seq, x)
    THEN CHOOSE i \in 1..Len(seq) : seq[i] = x
    ELSE 0

\* while a run is in its for loop none of its alerts has been handed over
NoneSentBeforeLoopEnds ==
    \A r \in 1..Len(runs) :
        runs[r].pc \in {"limit", "fetch", "backoff", "delay"} =>
            \A j \in 1..Len(runs[r].allAlerts) :
                ~Contains(delivered, runs[r].allAlerts[j])

\* a run that is sending has been through all of its batches
SendsAfterLastBatch ==
    \A r \in 1..Len(runs) : runs[r].pc = "send" => LastBatch(runs[r])

\* allAlerts of a run holds its alerts in the order of their detection
CollectedInDetectionOrder ==
    \A r \in 1..Len(runs) :
        \A j \in 1..Len(runs[r].allAlerts) :
            /\ PlaceIn(alertLog, runs[r].allAlerts[j]) > 0
            /\ \A k \in 1..(j - 1) :
                   PlaceIn(alertLog, runs[r].allAlerts[k])
                       < PlaceIn(alertLog, runs[r].allAlerts[j])

\* a step hands over one alert, that of a run past its last batch, the next
\* one in the order of allAlerts, with all its earlier alerts handed over
DeliversNextInOrder ==
    delivered' # delivered =>
        /\ Len(delivered') = Len(delivered) + 1
        /\ SubSeq(delivered', 1, Len(delivered)) = delivered
        /\ \E r \in 1..Len(runs) :
              /\ LastBatch(runs[r])
              /\ runs'[r].pc = "send"
              /\ runs'[r].allAlerts = runs[r].allAlerts
              /\ runs'[r].k - 1 \in 1..Len(runs[r].allAlerts)
              /\ delivered'[Len(delivered')]
                     = runs[r].allAlerts[runs'[r].k - 1]
              /\ \A j \in 1..(runs'[r].k - 2) :
                     Contains(delivered, runs[r].allAlerts[j])

\* C34: no alert of a monitor cycle is handed to the bot before every batch
\* of the cycle has completed or been skipped, and the alerts are then
\* delivered one at a time in the order in which they were detected
C34_DeliveryAfterBatchesInOrder ==
    /\ [](NoneSentBeforeLoopEnds /\ SendsAfterLastBatch
             /\ CollectedInDetectionOrder)
    /\ [][DeliversNextInOrder]_vars

\* a run of two batches found an alert in each and has delivered both, the
\* one of the first batch first
C34_Witness ==
    /\ Len(delivered) = 2
    /\ delivered[1].tokenAddress = FirstToken
    /\ delivered[2].tokenAddress = LastToken
    /\ alertLog = delivered

----------------------------------------------------------------------------
(* SpecSnapshot: monitor runs of two batches while a discovery run adds a  *)
(* token to the Universe                                                    *)

\* the token a later discovery run finds
LateToken == "T32"

\* the search results: the tokens of BatchUniverse, alone or with LateToken
SnapSearchResults ==
    {BatchSearchResult, BatchSearchResult \o <<Spike30(LateToken)>>}

\* the clock is followed up to the first firing of the discovery timer
SnapHorizonMs == discoveryIntervalMs

SnapTickStep ==
    now < StartTime + SnapHorizonMs /\ Tick(discoveryIntervalMs)

\* the runs a timer may start are capped at MaxSnapRuns
SnapMonitorTimerStep ==
    Len(runs) + Len(discoveries) < MaxSnapRuns /\ MonitorTimerFire

SnapDiscoveryTimerStep ==
    Len(runs) + Len(discoveries) < MaxSnapRuns /\ DiscoveryTimerFire

SnapPumpfunStep ==
    \E d \in 1..Len(discoveries) : \E pairs \in SnapSearchResults :
        PumpfunSearched(d, pairs)

SnapBonkStep == \E d \in 1..Len(discoveries) : BonkSearched(d, <<>>)

\* getTokenPairs answers with a pair of the token asked for; the re-fetches
\* of the discovery runs after the initial one stay pending
SnapRevalidatedStep ==
    \E d \in {1} \cap (1..Len(discoveries)) :
        /\ discoveries[d].pc = "reval"
        /\ Revalidated(d, <<Spike30(discoveries[d].existing[discoveries[d].j])>>)

\* the response to a batch holds one record, of the first token of the batch
SnapBatchFetchedStep ==
    \E r \in 1..Len(runs) :
        /\ runs[r].pc = "fetch"
        /\ BatchFetched(r, <<Quiet(Batch(runs[r])[1])>>)

NextSnapshot ==
    \/ StartService
    \/ SnapTickStep
    \/ SnapMonitorTimerStep
    \/ SnapDiscoveryTimerStep
    \/ SnapPumpfunStep
    \/ SnapBonkStep
    \/ DiscoverySettledStep
    \/ SnapRevalidatedStep
    \/ SnapBatchFetchedStep
    \/ DelayElapsedStep

SpecSnapshot == Init /\ [][NextSnapshot]_vars

----------------------------------------------------------------------------
(* C35: a monitor cycle works on the membership snapshotted at its start *)

\* the loop indices i = 0, batchSize, ... of a run over tracked
BatchStarts(tracked) == {i \in 0..(Len(tracked) - 1) : i % batchSize = 0}

\* trackedTokens.slice(i, i + batchSize)
BatchAt(tracked, i) == Batch([DoneRun EXCEPT !.tracked = tracked, !.i = i])

\* the batches of a snapshot hold at most batchSize identities and every
\* identity of the snapshot is in exactly one of them
Partitioned(tracked) ==
    /\ \A i \in BatchStarts(tracked) : Len(BatchAt(tracked, i)) \in 1..batchSize
    /\ \A n \in 1..Len(tracked) :
           Cardinality({i \in BatchStarts(tracked) :
                           Contains(BatchAt(tracked, i), tracked[n])}) = 1

\* a run that begins takes the membership of that moment, starts at its
\* first batch, and its batches partition the snapshot
BeginsOnSnapshot ==
    Len(runs') = Len(runs) + 1 =>
        LET new == runs'[Len(runs')]
        IN IF new.pc = "done" THEN trackedTokens' = <<>> \/ isPaused
           ELSE /\ new.tracked = trackedTokens'
                /\ new.i = 0
                /\ new.pc \in {"fetch", "limit"}
                /\ Partitioned(new.tracked)

\* a run in flight keeps its snapshot whatever happens to the Universe
SnapshotFixed ==
    \A r \in 1..Len(runs) :
        runs'[r].pc # "done" => runs'[r].tracked = runs[r].tracked

\* a run goes from one batch to the next, and leaves its loop, only after
\* the request of the batch has resolved or failed, and leaves the loop only
\* from its last batch
WalksEveryBatch ==
    \A r \in 1..Len(runs) :
        /\ (runs'[r].pc # "done" /\ runs'[r].i # runs[r].i) =>
               /\ runs'[r].i = runs[r].i + batchSize
               /\ runs[r].pc \in {"delay", "fetch"}
        /\ (runs[r].pc \in {"limit", "fetch", "backoff", "delay"}
            /\ runs'[r].pc \in {"send", "done"}) =>
               /\ LastBatch(runs[r])
               /\ runs[r].pc \in {"delay", "fetch"}

\* the batch a run requests is a batch of its snapshot
RequestsOwnBatch ==
    \A r \in 1..Len(runs') :
        runs'[r].pc = "fetch" =>
            /\ runs'[r].i % batchSize = 0
            /\ runs'[r].i < Len(runs'[r].tracked)
            /\ Batch(runs'[r]) = BatchAt(runs'[r].tracked, runs'[r].i)

\* C35: a monitor cycle works on the Universe membership as it was when the
\* cycle began: every identity of that snapshot is in exactly one batch,
\* every batch holds at most 30 identities and is requested, an identity
\* added to the Universe after the snapshot is not requested in the cycle,
\* and the next cycle takes the membership of its own start
C35_CycleUsesSnapshot ==
    [][BeginsOnSnapshot /\ SnapshotFixed /\ WalksEveryBatch
          /\ RequestsOwnBatch]_vars

\* the run of start() is still in its first batch on a snapshot without the
\* late token, which a discovery run has added meanwhile, and the run of the
\* monitor timer requests it in its second batch
C35_Witness ==
    /\ Len(runs) = 2
    /\ runs[1].pc = "fetch" /\ runs[1].i = 0
    /\ ~Contains(runs[1].tracked, LateToken)
    /\ Contains(trackedTokens, LateToken)
    /\ runs[2].pc = "fetch" /\ runs[2].i = batchSize
    /\ Contains(Batch(runs[2]), LateToken)

----------------------------------------------------------------------------
(* C36: a tier fires only when armed, and a cooling tier50 is not          *)
(* downgraded to tier25                                                     *)

\* the latest call passed the gates and the dormancy check
ReachedTierSelection == Called /\ lastCall.exit \in {"tier", "alert"}

\* an emitted tier was armed when the call began
FiresOnlyArmed ==
    (Called /\ lastCall.tier # "none") =>
        Armed(lastCall.prev, lastCall.tier, lastCall.at)

\* a change of at least 50 percent with tier50 on and cooling emits nothing
NoDowngrade ==
    ( /\ Called /\ lastCall.pair.priceChangeM5 >= 50 /\ lastCall.t50
      /\ ~Armed(lastCall.prev, "tier50", lastCall.at) )
        => lastCall.tier = "none"

\* whether a tier fires depends on its own stamp only: tier50 fires on a
\* change of at least 50 percent exactly when tier50 is armed, tier25 on a
\* change from 25 to below 50 percent exactly when tier25 is armed
TiersIndependent ==
    ( /\ ReachedTierSelection /\ lastCall.t25 /\ lastCall.t50
      /\ lastCall.pair.priceChangeM5 >= 25 )
        => LET own == IF lastCall.pair.priceChangeM5 >= 50 THEN "tier50"
                      ELSE "tier25"
           IN lastCall.tier = IF Armed(lastCall.prev, own, lastCall.at)
                              THEN own ELSE "none"

----------------------------------------------------------------------------
(* SpecFrame: evaluations of two tokens, both tracked or not, with alerts  *)
(* of both tiers                                                            *)

FramePairs == {Spike30("A"), Spike62("A"), Spike30("B")}

FrameEvalStep ==
    evals < MaxFrameEvals /\ \E p \in FramePairs : CheckForSpike(p)

FrameTickStep == ticks < MaxFrameTicks /\ Tick(2 * MinuteMs)

FrameAddTokenStep ==
    \E a \in Addresses : ~Contains(trackedTokens, a) /\ AddToken(a)

NextFrame == FrameEvalStep \/ FrameTickStep \/ FrameAddTokenStep

SpecFrame == Init /\ [][NextFrame]_vars

----------------------------------------------------------------------------
(* C37: what an evaluation changes *)

\* C37: an evaluation that emits no alert leaves every stamp of every
\* identity unchanged; an evaluation that emits an alert of tier t changes
\* only the stamp of t of the evaluated identity; no evaluation changes the
\* Universe or the state of another identity
C37_EvaluationFrame ==
    [][evals' = evals + 1 =>
         LET c == lastCall'
             a == c.pair.address
         IN /\ trackedTokens' = trackedTokens
            /\ DOMAIN tokens \subseteq DOMAIN tokens'
            /\ DOMAIN tokens' \subseteq DOMAIN tokens \cup {a}
            /\ \A b \in DOMAIN tokens \ {a} : tokens'[b] = tokens[b]
            /\ \A tier \in Tiers :
                   StampsOf(tokens', a)[tier] =
                       IF tier = c.tier THEN c.at
                       ELSE StampsOf(tokens, a)[tier]]_vars

\* token A, alerted for tier50 two minutes earlier, is alerted for tier25:
\* the tier50 stamp is the old one, and token B has a state and is tracked
C37_Witness ==
    /\ Called /\ lastCall.pair.address = "A" /\ lastCall.tier = "tier25"
    /\ lastCall.prev["tier50"] # 0 /\ lastCall.prev["tier50"] < lastCall.at
    /\ tokens["A"].lastAlertTimestamp["tier50"] = lastCall.prev["tier50"]
    /\ tokens["A"].lastAlertTimestamp["tier25"] = lastCall.at
    /\ "B" \in DOMAIN tokens
    /\ Contains(trackedTokens, "B")

----------------------------------------------------------------------------
(* C38: the cleanup and running cooldowns *)

\* the states the cleanup would delete at this reading of the clock
Deletable == DOMAIN tokens \ DOMAIN cleanupOldTokens(tokens, cleanupMaxAgeHours, now)

\* no state the cleanup would delete has a tier that is cooling
DeletableIsArmed ==
    \A a \in Deletable : \A tier \in Tiers :
        ~isInCooldown(tokens, a, tier, alertCooldownMs, now)

\* an alert whose token has no state any more is at least alertCooldownMs old
DeletedAreArmed ==
    \A i \in 1..Len(alertLog) :
        alertLog[i].tokenAddress \notin DOMAIN tokens
            => now - alertLog[i].timestamp >= alertCooldownMs

\* a state created again after an alert of its token was created at least
\* alertCooldownMs after that alert
RecreatedAfterCooldown ==
    \A i \in 1..Len(alertLog) :
        LET a == alertLog[i].tokenAddress
        IN (a \in DOMAIN tokens /\ tokens[a].firstSeen > alertLog[i].timestamp)
               => tokens[a].firstSeen - alertLog[i].timestamp >= alertCooldownMs

\* C38: whenever cleanupOldTokens deletes a state, no (identity, tier) pair
\* of it is still cooling, so deleting a state and creating it again cannot
\* let a second alert of a tier fire within alertCooldownMs of the previous
\* one
C38_CleanupKeepsCooldown ==
    DeletableIsArmed /\ DeletedAreArmed /\ RecreatedAfterCooldown

\* a token was alerted, deleted by the cleanup and created again without
\* stamps
C38_Witness ==
    /\ "A" \in DOMAIN tokens
    /\ tokens["A"].lastAlertTimestamp = NoAlerts
    /\ \E i \in 1..Len(alertLog) :
          /\ alertLog[i].tokenAddress = "A"
          /\ tokens["A"].firstSeen > alertLog[i].timestamp

----------------------------------------------------------------------------
(* C39: revalidation and the size of the Universe *)

\* C39: updateTokenEligibility never enlarges the Universe: an identity that
\* is not a member when the re-fetch of a revalidation completes is not a
\* member after the call either
C39_RevalidationNeverEnlarges ==
    [][(\E d \in 1..Len(discoveries) :
            /\ discoveries[d].pc = "reval"
            /\ discoveries'[d] # discoveries[d])
        => \A a \in Members(trackedTokens') : a \in Members(trackedTokens)]_vars

----------------------------------------------------------------------------
(* SpecForeign: the service when the answer to a batch may hold records    *)
(* of a base token that was not asked for (the provider matches a         *)
(* requested address against the quote token of a pair too)                 *)

ForeignPairs == {Quiet("A"), Quiet("B"), Spike30("B")}

\* getMultipleTokenPairs returns what the provider sent, unfiltered
ForeignResponses == {<<p>> : p \in ForeignPairs}

ForeignMonitorTimerStep == Len(runs) < MaxForeignRuns /\ MonitorTimerFire

ForeignTickStep == ticks < MaxForeignTicks /\ Tick(pollingIntervalMs)

ForeignBatchFetchedStep ==
    \E r \in 1..Len(runs) : \E pairs \in ForeignResponses :
        BatchFetched(r, pairs)

NextForeign ==
    \/ StartService
    \/ PumpfunSearchedStep
    \/ BonkSearchedStep
    \/ DiscoverySettledStep
    \/ RevalidatedStep
    \/ ForeignTickStep
    \/ ForeignMonitorTimerStep
    \/ ForeignBatchFetchedStep
    \/ DelayElapsedStep
    \/ SendNextStep

SpecForeign == Init /\ [][NextForeign]_vars

----------------------------------------------------------------------------
(* C40: the identities a monitor cycle touches *)

\* the fetch of run r resolved in this step
BatchResolved(r) ==
    /\ r \in 1..Len(runs) /\ r \in 1..Len(runs')
    /\ runs[r].pc = "fetch" /\ runs'[r].pc = "delay"

\* C40: every state a monitor cycle creates and every alert it emits belongs
\* to an identity of the membership snapshot the cycle took at its start,
\* whatever records the provider returned for the batch
C40_OnlyTrackedScanned ==
    [][\A r \in 1..Len(runs) :
          BatchResolved(r)
          => /\ \A a \in (DOMAIN tokens') \ (DOMAIN tokens) :
                   Contains(runs[r].tracked, a)
             /\ \A i \in (Len(alertLog) + 1)..Len(alertLog') :
                   Contains(runs[r].tracked, alertLog'[i].tokenAddress)]_vars

====
